---- MODULE Spec2Model ----
(***************************************************************************)
(* A state-machine model of rftdi: the device property database, the       *)
(* validation done by Ftdi::open, the Ftdi handle, and the mode-typed Port *)
(* with its serial extension.  The USB host-access layer (rusb) is the     *)
(* environment: every call made to it is appended to `calls`, and its      *)
(* answers are inputs of the actions.                                      *)
(***************************************************************************)
EXTENDS Integers, Sequences, FiniteSets, Bags, TLC

(***************************************************************************)
(* Bounds of the model.                                                    *)
(***************************************************************************)
\* bcdDevice major versions 0..MaxMajor are enumerated (DEVICES has 11 rows).
MaxMajor == 12
\* Configurations with 0..MaxInterfaces interfaces are enumerated.
MaxInterfaces == 4
\* The port life cycle is explored on devices with at most MaxPorts ports.
MaxPorts == 2
\* ... and there with the first NumModes bit modes as into_mode targets.
NumModes == 2
\* The simulated EEPROM holds the words at addresses 0..MaxAddr.
MaxAddr == 1
\* rusb::devices() lists at most MaxScan devices.
MaxScan == 3

(***************************************************************************)
(* Option<T>: None is the empty sequence, Some(x) a one-element sequence.  *)
(***************************************************************************)
None == <<>>
Some(x) == <<x>>
IsSome(o) == Len(o) = 1
IsNone(o) == Len(o) = 0
Unwrap(o) == o[1]

\* Widths of the integer types involved.
U8 == 2^8
U16 == 2^16

(***************************************************************************)
(* prop.rs: the device property database.                                  *)
(***************************************************************************)
DUMB_PORT == <<"No">>

\* Indexed by bcdDevice major version; TLA+ sequences are 1-based, so the
\* row of major m is DEVICES[m + 1].
DEVICES ==
  << None,                                                        \* 0.00
     None,                                                        \* 1.00
     Some([model |-> "FT232AM", tx_buf |-> 128, rx_buf |-> 128,
           port_width |-> 0, ports |-> DUMB_PORT]),                \* 2.00
     None,                                                        \* 3.00
     Some([model |-> "FT232BM", tx_buf |-> 128, rx_buf |-> 384,
           port_width |-> 0, ports |-> DUMB_PORT]),                \* 4.00
     Some([model |-> "FT2232C/D", tx_buf |-> 128, rx_buf |-> 384,
           port_width |-> 12, ports |-> <<"Basic">>]),             \* 5.00
     Some([model |-> "FT232R", tx_buf |-> 256, rx_buf |-> 128,
           port_width |-> 8, ports |-> DUMB_PORT]),                \* 6.00
     Some([model |-> "FT2232H", tx_buf |-> 4096, rx_buf |-> 4096,
           port_width |-> 16, ports |-> <<"H", "H">>]),            \* 7.00
     Some([model |-> "FT4232H", tx_buf |-> 2048, rx_buf |-> 2048,
           port_width |-> 8, ports |-> <<"H", "H", "No", "No">>]), \* 8.00
     Some([model |-> "FT232H", tx_buf |-> 1024, rx_buf |-> 1024,
           port_width |-> 16, ports |-> <<"FT232H">>]),            \* 9.00
     Some([model |-> "FT-X", tx_buf |-> 512, rx_buf |-> 512,
           port_width |-> 8, ports |-> DUMB_PORT]) >>              \* 10.00

\* slice::get(index): Some(element) inside the slice, None past its end.
SliceGet(s, i) == IF i + 1 \in 1..Len(s) THEN Some(s[i + 1]) ELSE None

\* The table read as if its first row were major 1.
LookupOneBased(major) ==
  LET row == SliceGet(DEVICES, major - 1)
  IN  IF IsSome(row) /\ IsSome(Unwrap(row)) THEN Unwrap(row) ELSE None

\* prop::DEVICES.get(major) matched against Some(Some(props)): the result is
\* Some(props) exactly when the row exists and is not None.
Lookup(major) ==
  LET row == SliceGet(DEVICES, major)
  IN  IF IsSome(row) /\ IsSome(Unwrap(row)) THEN Unwrap(row) ELSE None

\* A `&'static DeviceProps` is the address of a row of DEVICES: the model
\* holds the row's index (the major version) and dereferences it here.
Props(ref) == Unwrap(DEVICES[ref + 1])

(***************************************************************************)
(* bitmode.rs: the bit modes and their discriminants.                      *)
(***************************************************************************)
ModeSeq ==
  <<"Serial", "Bitbang", "Mpsse", "Syncbb", "Mcu", "Opto", "Cbus", "Syncff">>

AnyBitMode == {ModeSeq[i] : i \in 1..Len(ModeSeq)}

BitMode(mode) ==
  CASE mode = "Serial"  -> 0
    [] mode = "Bitbang" -> 1
    [] mode = "Mpsse"   -> 2
    [] mode = "Syncbb"  -> 4
    [] mode = "Mcu"     -> 8
    [] mode = "Opto"    -> 16
    [] mode = "Cbus"    -> 32
    [] mode = "Syncff"  -> 64

(***************************************************************************)
(* lib.rs: request opcodes and the default timeout.                        *)
(***************************************************************************)
ReqReset == 0
ReqSetModemCtrl == 1
ReqSetFlowCtrl == 2
ReqSetBaudrate == 3
ReqSetData == 4
ReqPollModemStatus == 5
ReqSetEventChar == 6
ReqSetErrorChar == 7
ReqSetLatencyTimer == 9
ReqGetLatencyTimer == 10
ReqSetBitmode == 11
ReqReadPins == 12
ReqReadEeprom == 144
ReqWriteEeprom == 145
ReqEraseEeprom == 146

\* Duration::from_millis(500), in milliseconds.
DEFAULT_TIMEOUT == 500

\* The request-type byte; the three fields occupy disjoint bits, so `|` adds.
REQ_TYPE_VENDOR == 2 * 32
REQ_RECIPIENT_DEVICE == 0
REQ_DIR_OUT == 0
REQ_DIR_IN == 128
REQ_READ == REQ_TYPE_VENDOR + REQ_RECIPIENT_DEVICE + REQ_DIR_IN
REQ_WRITE == REQ_TYPE_VENDOR + REQ_RECIPIENT_DEVICE + REQ_DIR_OUT

VARIABLES
  scan,    \* the devices rusb::devices() lists, in order
  device,  \* the raw device handed to Ftdi::open
  ftdi,    \* Option<Ftdi>: the handle value, [properties, timeout]
  usb,     \* the physical device as the USB layer sees it
  ports,   \* bag of the live Port values
  calls,   \* the USB-layer calls made by the last operation, in order
  answers, \* the USB layer's answers to `calls`, call by call
  borrows, \* the accesses of the last operation to the shared RefCell
  result   \* the last operation, its arguments and what it returned

vars == <<scan, device, ftdi, usb, ports, calls, answers, borrows, result>>

(***************************************************************************)
(* The USB layer.  A call is logged as a record; the layer's answers are   *)
(* inputs of the actions: "Done" (the transfer moved exactly the requested *)
(* bytes), "Count" (it succeeded with another byte count) and "Err".       *)
(***************************************************************************)
Outcomes == {"Done", "Count", "Err"}

Call(name, reqtype, request, value, index, len, timeout) ==
  [call |-> name, reqtype |-> reqtype, request |-> request, value |-> value,
   index |-> index, len |-> len, timeout |-> timeout]

ClaimCall(index) == Call("claim_interface", 0, 0, 0, index, 0, 0)
ReleaseCall(index) == Call("release_interface", 0, 0, 0, index, 0, 0)
PlainCall(name) == Call(name, 0, 0, 0, 0, 0, 0)

\* claim_interface: claims are exclusive, so the call fails on an interface
\* that is already claimed; `avail` is FALSE when it fails for another reason
\* (another process holds the interface, the device is gone).
UsbClaimOk(u, index, avail) == avail /\ index \notin u.claimed

UsbClaim(u, index) == [u EXCEPT !.claimed = @ \cup {index}]

\* release_interface: a failed release leaves the claim in place.
UsbRelease(u, index, ok) ==
  IF ok THEN [u EXCEPT !.claimed = @ \ {index}] ELSE u

\* What a control write does to the device: a SetBitmode request that was
\* transferred sets the mode of the interface named by its index field to
\* the high byte of its value field.
UsbWrite(u, call, outcome) ==
  IF outcome # "Err" /\ call.request = ReqSetBitmode
       /\ call.index \in 1..Len(u.bitmode)
  THEN [u EXCEPT !.bitmode[call.index] = call.value \div 256]
  ELSE u

\* The EEPROM behind the transport, an array of 16-bit words: the word an
\* erased cell holds, what a WriteEeprom or EraseEeprom request that was
\* transferred does to the array (the index field is the word address, the
\* value field the word), and the two bytes a ReadEeprom request returns.
ErasedWord == U16 - 1

UsbEepromWrite(u, call, outcome) ==
  IF outcome = "Err" THEN u
  ELSE IF call.request = ReqWriteEeprom /\ call.index + 1 \in 1..Len(u.eeprom)
    THEN [u EXCEPT !.eeprom[call.index + 1] = call.value]
  ELSE IF call.request = ReqEraseEeprom
    THEN [u EXCEPT !.eeprom = [a \in 1..Len(u.eeprom) |-> ErasedWord]]
  ELSE u

UsbEepromRead(u, call) ==
  IF call.index + 1 \in 1..Len(u.eeprom)
  THEN <<u.eeprom[call.index + 1] % 256, u.eeprom[call.index + 1] \div 256>>
  ELSE <<ErasedWord % 256, ErasedWord \div 256>>

(***************************************************************************)
(* The outcome of an operation.                                            *)
(***************************************************************************)
\* Ftdi::dev and Port::dev: self.device.borrow_mut().  In a statement
\* `self.dev().call(...)` the RefMut is a temporary: it is taken, the call on
\* the DeviceHandle is made, and it is dropped at the end of the statement,
\* also when `?` returns from it.
Statement == <<"borrow_mut", "call", "drop">>

\* `dev` kept until Port::open returns: locals are dropped in reverse order
\* of declaration, `this` before `dev`.
ClaimScopeToEnd(rest) == <<"borrow_mut", "call">> \o rest \o <<"drop">>

\* Port::open: let mut dev = parent.dev(); dev.claim_interface(index)...?;
\* drop(dev); and then `rest`.  When `?` returns, `dev` is dropped on the way
\* out and `rest` is empty.
ClaimScope(rest) == <<"borrow_mut", "call", "drop">> \o rest

\* `data` is the buffer a control read has filled, <<>> for any other
\* operation.
ResultWithData(op, kind, arg, ret, data) ==
  [op |-> op, kind |-> kind, arg |-> arg, ret |-> ret, data |-> data]

Result(op, kind, arg, ret) == ResultWithData(op, kind, arg, ret, <<>>)

Panicked == result.kind = "Panic"

InitOn(devices) ==
  /\ device \in devices
  /\ ftdi = None
  /\ usb = [open |-> FALSE, num_interfaces |-> 0, claimed |-> {},
            bitmode |-> <<>>, eeprom |-> [a \in 1..(MaxAddr + 1) |-> ErasedWord]]
  /\ ports = EmptyBag
  /\ calls = <<>>
  /\ answers = <<>>
  /\ borrows = <<>>
  /\ result = Result("init", "Ok", <<>>, None)

(***************************************************************************)
(* lib.rs: Ftdi::open.  A raw device is what the USB layer reports of it:  *)
(*   descr   Option of the device descriptor (None: reading it fails),     *)
(*   config  Option of the active configuration (None: reading it fails),  *)
(*           a sequence of interfaces, each the sequence of the endpoint   *)
(*           counts of its interface descriptors,                          *)
(*   open_ok whether the layer's open call succeeds.                       *)
(* The device is drawn in the initial state.                               *)
(***************************************************************************)
\* One iteration of the loop over conf_descr.interfaces(): TRUE when the
\* iteration returns UnsupportedDevice.  The test of num_endpoints has an
\* empty body, so the endpoint count decides nothing.
InterfaceRejected(intf) ==
  LET descr == IF Len(intf) >= 1 THEN Some(intf[1]) ELSE None
      rest == IF Len(intf) >= 1 THEN Tail(intf) ELSE <<>>
  IN  \/ IsNone(descr)
      \/ Len(rest) >= 1

\* Only the minor field tested.
MinorRejected(descr) == descr.minor # 0

\* version.minor() != 0 || version.sub_minor() != 0.
VersionRejected(descr) == descr.minor # 0 \/ descr.sub_minor # 0

\* The interface count not compared.
InterfaceCountIgnored(conf, properties) == FALSE

\* usize::from(conf_descr.num_interfaces()) != properties.ports.len().
InterfaceCountMismatch(conf, properties) == Len(conf) # Len(properties.ports)

\* The value Ftdi::open returns, as [kind, properties, calls]: `properties`
\* is the index of the matched DEVICES row when kind = "Ok".
OpenOutcome(d) ==
  LET Fail(kind, cs, last) ==
        [kind |-> kind, properties |-> 0, calls |-> cs,
         answers |-> [k \in 1..Len(cs) |-> IF k = Len(cs) THEN last ELSE "Ok"]]
      c1 == <<PlainCall("device_descriptor")>>
      c2 == Append(c1, PlainCall("active_config_descriptor"))
      c3 == Append(c2, PlainCall("open"))
  IN  IF IsNone(d.descr) THEN Fail("Usb", c1, "Err")
      ELSE LET descr == Unwrap(d.descr) IN
      IF descr.num_configurations # 1 THEN Fail("UnsupportedDevice", c1, "Ok")
      ELSE IF IsNone(d.config) THEN Fail("Usb", c2, "Err")
      ELSE LET conf == Unwrap(d.config) IN
      IF \E i \in 1..Len(conf) : InterfaceRejected(conf[i])
        THEN Fail("UnsupportedDevice", c2, "Ok")
      ELSE IF VersionRejected(descr)
        THEN Fail("UnsupportedDevice", c2, "Ok")
      ELSE LET properties == Lookup(descr.major) IN
      IF IsNone(properties) THEN Fail("UnsupportedDevice", c2, "Ok")
      ELSE IF InterfaceCountMismatch(conf, Unwrap(properties))
        THEN Fail("UnsupportedDevice", c2, "Ok")
      ELSE IF ~d.open_ok THEN Fail("Usb", c3, "Err")
      ELSE [kind |-> "Ok", properties |-> descr.major, calls |-> c3,
            answers |-> <<"Ok", "Ok", "Ok">>]

FtdiOpen ==
  /\ ~Panicked
  /\ IsNone(ftdi) /\ ~usb.open /\ usb.num_interfaces = 0
  /\ LET d == device
         out == OpenOutcome(d) IN
       /\ calls' = out.calls
       /\ answers' = out.answers
       /\ borrows' = <<>>
       /\ result' = Result("open", out.kind, <<>>, None)
       /\ IF out.kind = "Ok"
          THEN /\ ftdi' = Some([properties |-> out.properties,
                                timeout |-> DEFAULT_TIMEOUT])
               /\ usb' = [open |-> TRUE,
                          num_interfaces |-> Len(Unwrap(d.config)),
                          claimed |-> {},
                          bitmode |-> [i \in 1..Len(Unwrap(d.config)) |-> 0],
                          eeprom |-> usb.eeprom]
          ELSE UNCHANGED <<ftdi, usb>>
  /\ UNCHANGED <<scan, device, ports>>

\* Ftdi::num_ports: properties.ports.len() as u8.
NumPorts(f) == Len(Props(f.properties).ports) % U8

\* A timeout shared by the handle and its Ports: set_timeout reaches the
\* Ports already open.
SetTimeoutShared(t) ==
  /\ ~Panicked
  /\ IsSome(ftdi)
  /\ ftdi' = Some([Unwrap(ftdi) EXCEPT !.timeout = t])
  /\ ports' = BagOfAll(LAMBDA p : [p EXCEPT !.timeout = t], ports)
  /\ calls' = <<>>
  /\ answers' = <<>>
  /\ borrows' = <<>>
  /\ result' = Result("set_timeout", "Ok", <<t>>, None)
  /\ UNCHANGED <<scan, device, usb>>

\* Ftdi::set_timeout.
SetTimeout(t) ==
  /\ ~Panicked
  /\ IsSome(ftdi)
  /\ ftdi' = Some([Unwrap(ftdi) EXCEPT !.timeout = t])
  /\ calls' = <<>>
  /\ answers' = <<>>
  /\ borrows' = <<>>
  /\ result' = Result("set_timeout", "Ok", <<t>>, None)
  /\ UNCHANGED <<scan, device, usb, ports>>

\* The Ftdi value goes out of scope: its Rc reference is dropped, and the
\* device is closed when no Port holds another.
FtdiDrop ==
  /\ ~Panicked
  /\ IsSome(ftdi)
  /\ ftdi' = None
  /\ usb' = [usb EXCEPT !.open = (BagCardinality(ports) > 0)]
  /\ calls' = <<>>
  /\ answers' = <<>>
  /\ borrows' = <<>>
  /\ result' = Result("drop_ftdi", "Ok", <<>>, None)
  /\ UNCHANGED <<scan, device, ports>>

(***************************************************************************)
(* port.rs: Port.  A Port value is the record                              *)
(*   [index, timeout, ep_in, ep_out, properties, mode]                     *)
(* where `mode` is the type parameter M and `index` is the field of the    *)
(* ReleaseOnDrop the Port owns.                                            *)
(***************************************************************************)
PURGE_RX == 1
PURGE_TX == 2
\* Only the RX buffer purged.
PurgeRxOnly == PURGE_RX

\* PURGE_RX | PURGE_TX: distinct bits.
PURGE_RX_TX == PURGE_RX + PURGE_TX

\* A byte count other than buf.len() accepted.
ControlKindCountIgnored(outcome) ==
  CASE outcome = "Err"   -> "Usb"
    [] outcome = "Count" -> "Ok"
    [] outcome = "Done"  -> "Ok"

\* The transport's error reported as a protocol error.
ControlKindErrAsOther(outcome) ==
  CASE outcome = "Err"   -> "Other"
    [] outcome = "Count" -> "Other"
    [] outcome = "Done"  -> "Ok"

\* How a control transfer's answer becomes the Result of read_control and
\* write_control: Err(e) is mapped by Error::usb, a byte count other than
\* buf.len() is Error::other.
ControlKind(outcome) ==
  CASE outcome = "Err"   -> "Usb"
    [] outcome = "Count" -> "Other"
    [] outcome = "Done"  -> "Ok"

\* The interface number itself as the index field.
WriteControlNoOffset(port, request, value) ==
  Call("write_control", REQ_WRITE, request, value, port.index % U16, 0,
       port.timeout)

\* Port::write_control: the call it makes.  Every caller passes &[].
WriteControl(port, request, value) ==
  Call("write_control", REQ_WRITE, request, value,
       ((port.index % U16) + 1) % U16, 0, port.timeout)

\* Port::read_control: the call it makes, for a buffer of `len` bytes.
ReadControl(port, request, value, len) ==
  Call("read_control", REQ_READ, request, value,
       ((port.index % U16) + 1) % U16, len, port.timeout)

\* The mode left in the low byte.
SetBitmodeValueUnshifted(mode) == BitMode(mode) % U16

\* Port::set_bitmode: (mode as u16) << 8 | 0x00.
SetBitmodeValue(mode) == (BitMode(mode) * 256) % U16

SetBitmode(port, mode) == WriteControl(port, ReqSetBitmode, SetBitmodeValue(mode))

\* A drop that does not release.
ReleaseForgotten(u, port, rel, others) ==
  [calls |-> <<>>, answers |-> <<>>, borrows |-> <<>>,
   usb |-> [u EXCEPT !.open = others]]

\* The release made with the index of the control requests, interface + 1.
ReleaseWrongInterface(u, port, rel, others) ==
  [calls |-> <<ReleaseCall(port.index + 1)>>,
   answers |-> <<IF rel THEN "Ok" ELSE "Err">>,
   borrows |-> Statement,
   usb |-> [UsbRelease(u, port.index + 1, rel) EXCEPT !.open = others]]

\* ReleaseOnDrop::drop, as [calls, answers, borrows, usb]: one statement,
\* self.device.borrow_mut().release_interface(self.index).ok(), whose result
\* is discarded by .ok(); `rel` is whether the USB layer releases.
\* Then the Rc is dropped: the device is closed when neither the Ftdi nor
\* another Port holds it (`others`).
ReleaseOnDrop(u, port, rel, others) ==
  [calls |-> <<ReleaseCall(port.index)>>,
   answers |-> <<IF rel THEN "Ok" ELSE "Err">>,
   borrows |-> Statement,
   usb |-> [UsbRelease(u, port.index, rel) EXCEPT !.open = others]]

\* The claim's error discarded instead of returned.
ClaimErrorIgnored(u, index, avail) == FALSE

\* dev.claim_interface(index).map_err(Error::usb)?: TRUE when the `?` returns
\* the error.
ClaimFailed(u, index, avail) == ~UsbClaimOk(u, index, avail)

\* Port::open, as [kind, calls, answers, borrows, usb, port]: the value returned (port is Some
\* when kind = "Ok"), the calls made and the state of the USB layer after.
\* avail, o1, o2 and rel are the USB layer's answers to claim_interface, the
\* Reset transfer, the SetBitmode transfer and release_interface.
PortOpen(parent, u, index, ep_in, ep_out, avail, o1, o2, rel) ==
  LET this == [index |-> index, timeout |-> parent.timeout,
               ep_in |-> ep_in, ep_out |-> ep_out,
               properties |-> parent.properties, mode |-> "Serial"]
      claim == ClaimCall(index)
      reset == WriteControl(this, ReqReset, PURGE_RX_TX)
      setbm == SetBitmode(this, "Serial")
      u1 == UsbClaim(u, index)
      u2 == UsbWrite(u1, reset, o1)
      u3 == UsbWrite(u2, setbm, o2)
  IN  IF ClaimFailed(u, index, avail)
        THEN [kind |-> "Usb", calls |-> <<claim>>, answers |-> <<"Err">>,
              borrows |-> ClaimScope(<<>>),
              usb |-> u, port |-> None]
      ELSE IF o1 # "Done"
        THEN LET drop == ReleaseOnDrop(u2, this, rel, TRUE) IN
             [kind |-> ControlKind(o1), calls |-> <<claim, reset>> \o drop.calls,
              answers |-> <<"Ok", o1>> \o drop.answers,
              borrows |-> ClaimScope(Statement \o drop.borrows),
              usb |-> drop.usb, port |-> None]
      ELSE IF o2 # "Done"
        THEN LET drop == ReleaseOnDrop(u3, this, rel, TRUE) IN
             [kind |-> ControlKind(o2),
              calls |-> <<claim, reset, setbm>> \o drop.calls,
              answers |-> <<"Ok", o1, o2>> \o drop.answers,
              borrows |-> ClaimScope(Statement \o Statement \o drop.borrows),
              usb |-> drop.usb, port |-> None]
      ELSE [kind |-> "Ok", calls |-> <<claim, reset, setbm>>,
            answers |-> <<"Ok", o1, o2>>,
            borrows |-> ClaimScope(Statement \o Statement),
            usb |-> u3, port |-> Some(this)]

\* The assertion off by one.
PortInRangeInclusive(f, port) == port <= NumPorts(f)

\* The assertion of Ftdi::open_port: port < self.num_ports().
PortInRange(f, port) == port < NumPorts(f)

\* Ftdi::open_port.
OpenPort(index, ep_in, ep_out, avail, o1, o2, rel) ==
  /\ ~Panicked
  /\ IsSome(ftdi)
  /\ IF ~PortInRange(Unwrap(ftdi), index)
     THEN /\ result' = Result("open_port", "Panic", <<index>>, None)
          /\ calls' = <<>>
          /\ answers' = <<>>
          /\ borrows' = <<>>
          /\ UNCHANGED <<scan, device, usb, ports>>
     ELSE LET out == PortOpen(Unwrap(ftdi), usb, index, ep_in, ep_out,
                              avail, o1, o2, rel) IN
          /\ result' = Result("open_port", out.kind, <<index>>, out.port)
          /\ calls' = out.calls
          /\ answers' = out.answers
          /\ borrows' = out.borrows
          /\ usb' = out.usb
          /\ ports' = IF IsSome(out.port)
                      THEN ports (+) SetToBag({Unwrap(out.port)})
                      ELSE ports
  /\ UNCHANGED <<scan, device, ftdi>>

\* Only the Ftdi value counted as a holder of the device.
OthersHoldHandleOnly(p) == IsSome(ftdi)

\* The Ports other than one copy of p, and whether the Rc outlives p.
Without(p) == ports (-) SetToBag({p})
OthersHold(p) == IsSome(ftdi) \/ BagCardinality(Without(p)) > 0

\* A Port rebuilt with the handle's default timeout.
RetagDefaultTimeout(p, T) ==
  [index |-> p.index, timeout |-> DEFAULT_TIMEOUT, ep_in |-> p.ep_in,
   ep_out |-> p.ep_out, properties |-> p.properties, mode |-> T]

\* The Port built by into_mode::<T>: every field of `self` moved, and the
\* mode parameter T.
Retag(p, T) ==
  [index |-> p.index, timeout |-> p.timeout, ep_in |-> p.ep_in,
   ep_out |-> p.ep_out, properties |-> p.properties, mode |-> T]

\* into_mode returning the error of a failed release in place of its own.
IntoModeReleaseSurfaced(u, p, T, o, rel, others) ==
  LET setbm == SetBitmode(p, T)
      u1 == UsbWrite(u, setbm, o)
  IN  IF o # "Done"
      THEN LET drop == ReleaseOnDrop(u1, p, rel, others) IN
           [kind |-> IF rel THEN ControlKind(o) ELSE "Usb",
            calls |-> <<setbm>> \o drop.calls,
            answers |-> <<o>> \o drop.answers,
            borrows |-> Statement \o drop.borrows,
            usb |-> drop.usb, port |-> None]
      ELSE [kind |-> "Ok", calls |-> <<setbm>>, answers |-> <<o>>,
            borrows |-> Statement, usb |-> u1,
            port |-> Some(Retag(p, T))]

\* into_mode purging the buffers before it sets the mode, as Port::open does.
IntoModePurging(u, p, T, o, rel, others) ==
  LET reset == WriteControl(p, ReqReset, PURGE_RX_TX)
      setbm == SetBitmode(p, T)
      u1 == UsbWrite(UsbWrite(u, reset, "Done"), setbm, o)
  IN  IF o # "Done"
      THEN LET drop == ReleaseOnDrop(u1, p, rel, others) IN
           [kind |-> ControlKind(o), calls |-> <<reset, setbm>> \o drop.calls,
            answers |-> <<"Done", o>> \o drop.answers,
            borrows |-> Statement \o Statement \o drop.borrows,
            usb |-> drop.usb, port |-> None]
      ELSE [kind |-> "Ok", calls |-> <<reset, setbm>>,
            answers |-> <<"Done", o>>, borrows |-> Statement \o Statement,
            usb |-> u1,
            port |-> Some(Retag(p, T))]

\* Port::into_mode::<T>, as [kind, calls, answers, borrows, usb, port]: on success the
\* ReleaseOnDrop moves into the new Port; on failure `self` is dropped.
IntoModeOutcome(u, p, T, o, rel, others) ==
  LET setbm == SetBitmode(p, T)
      u1 == UsbWrite(u, setbm, o)
  IN  IF o # "Done"
      THEN LET drop == ReleaseOnDrop(u1, p, rel, others) IN
           [kind |-> ControlKind(o), calls |-> <<setbm>> \o drop.calls,
            answers |-> <<o>> \o drop.answers,
            borrows |-> Statement \o drop.borrows,
            usb |-> drop.usb, port |-> None]
      ELSE [kind |-> "Ok", calls |-> <<setbm>>, answers |-> <<o>>,
            borrows |-> Statement, usb |-> u1,
            port |-> Some(Retag(p, T))]

IntoMode(p, T, o, rel) ==
  /\ ~Panicked
  /\ BagIn(p, ports)
  /\ LET out == IntoModeOutcome(usb, p, T, o, rel, OthersHold(p)) IN
       /\ result' = Result("into_mode", out.kind, <<p, T>>, out.port)
       /\ calls' = out.calls
       /\ answers' = out.answers
       /\ borrows' = out.borrows
       /\ usb' = out.usb
       /\ ports' = IF IsSome(out.port)
                   THEN Without(p) (+) SetToBag({Unwrap(out.port)})
                   ELSE Without(p)
  /\ UNCHANGED <<scan, device, ftdi>>

\* A Port value goes out of scope.
DropPort(p, rel) ==
  /\ ~Panicked
  /\ BagIn(p, ports)
  /\ ports' = Without(p)
  /\ usb' = ReleaseOnDrop(usb, p, rel, OthersHold(p)).usb
  /\ calls' = ReleaseOnDrop(usb, p, rel, OthersHold(p)).calls
  /\ answers' = ReleaseOnDrop(usb, p, rel, OthersHold(p)).answers
  /\ borrows' = ReleaseOnDrop(usb, p, rel, OthersHold(p)).borrows
  /\ result' = Result("drop_port", "Ok", <<p>>, None)
  /\ UNCHANGED <<scan, device, ftdi>>

\* An operation that makes one control write and returns its Result.
PortWrite(op, p, args, request, value, o) ==
  /\ calls' = <<WriteControl(p, request, value)>>
  /\ answers' = <<o>>
  /\ borrows' = Statement
  /\ usb' = UsbWrite(usb, WriteControl(p, request, value), o)
  /\ result' = Result(op, ControlKind(o), <<p>> \o args, None)
  /\ UNCHANGED <<scan, device, ftdi, ports>>

\* An operation that makes one control read into a buffer of `len` bytes,
\* which the device fills with `buf`, and returns `value` when read_control
\* returns Ok.
PortRead(op, p, request, len, o, buf, value) ==
  /\ calls' = <<ReadControl(p, request, 0, len)>>
  /\ answers' = <<o>>
  /\ borrows' = Statement
  /\ result' = ResultWithData(op, ControlKind(o), <<p>>,
                              IF o = "Done" THEN Some(value) ELSE None,
                              IF o = "Done" THEN buf ELSE <<>>)
  /\ UNCHANGED <<scan, device, ftdi, usb, ports>>

\* Port::reset(flags).
Reset(p, flags, o) ==
  /\ ~Panicked
  /\ BagIn(p, ports)
  /\ PortWrite("reset", p, <<flags>>, ReqReset, flags, o)

\* Port::read_pins: buf[0] of a one-byte read.
ReadPins(p, o, buf) ==
  /\ ~Panicked
  /\ BagIn(p, ports)
  /\ PortRead("read_pins", p, ReqReadPins, 1, o, buf, buf[1])

(***************************************************************************)
(* serial.rs: the operations of Port<bitmode::Serial>.                     *)
(***************************************************************************)
\* Bitwise | and & on unsigned integers.
RECURSIVE BitOr(_, _)
BitOr(a, b) ==
  IF a = 0 THEN b
  ELSE IF b = 0 THEN a
  ELSE (IF a % 2 = 1 \/ b % 2 = 1 THEN 1 ELSE 0) + 2 * BitOr(a \div 2, b \div 2)

RECURSIVE BitAnd(_, _)
BitAnd(a, b) ==
  IF a = 0 \/ b = 0 THEN 0
  ELSE (IF a % 2 = 1 /\ b % 2 = 1 THEN 1 ELSE 0) + 2 * BitAnd(a \div 2, b \div 2)

\* x << n on u16.
Shl16(x, n) == (x * 2^n) % U16

\* The union of the flags of ModemStatus: bits 4 to 15.
ModemStatusAll == U16 - 16

\* The two bytes read big-endian.
FromBeBytes(buf) == 256 * buf[1] + buf[2]

\* u16::from_le_bytes.
FromLeBytes(buf) == buf[1] + 256 * buf[2]

\* The bits kept as they are, as from_bits_unchecked would.
FromBitsRetain(bits) == bits

\* ModemStatus::from_bits_truncate.
FromBitsTruncate(bits) == BitAnd(bits, ModemStatusAll)

MODEM_CTRL_SET_DTR_HIGH == 257
MODEM_CTRL_SET_DTR_LOW == 256
MODEM_CTRL_SET_RTS_HIGH == 514
MODEM_CTRL_SET_RTS_LOW == 512

FlowControl == {"Disabled", "RtsCts", "DtrDsr", "XonXoff"}

FlowControlValue(flow) ==
  CASE flow = "Disabled" -> 0
    [] flow = "RtsCts"   -> 256
    [] flow = "DtrDsr"   -> 512
    [] flow = "XonXoff"  -> 1024

Parity == {"None", "Odd", "Even", "Mark", "Space"}

ParityCode(parity) ==
  CASE parity = "None"  -> 0
    [] parity = "Odd"   -> 1
    [] parity = "Even"  -> 2
    [] parity = "Mark"  -> 3
    [] parity = "Space" -> 4

StopBits == {"Stop1", "Stop15", "Stop2"}

StopBitsCode(stop) ==
  CASE stop = "Stop1"  -> 0
    [] stop = "Stop15" -> 1
    [] stop = "Stop2"  -> 2

\* The stop bits one position lower: parity << 8 | stop << 10 | break << 14.
SerialConfigValueStopAt10(parity, stop, break_condition) ==
  BitOr(BitOr(Shl16(ParityCode(parity), 8), Shl16(StopBitsCode(stop), 10)),
        Shl16(IF break_condition THEN 1 ELSE 0, 14))

\* parity << 8 | stop << 11 | break_condition << 14.
SerialConfigValue(parity, stop, break_condition) ==
  BitOr(BitOr(Shl16(ParityCode(parity), 8), Shl16(StopBitsCode(stop), 11)),
        Shl16(IF break_condition THEN 1 ELSE 0, 14))

\* The character without its enable bit.
CharValueNoEnable(c) == IF IsSome(c) THEN Unwrap(c) % U16 ELSE 0

\* The value of set_event_char and set_error_char: 0x100 | b, or 0.
CharValue(c) == IF IsSome(c) THEN BitOr(256, Unwrap(c) % U16) ELSE 0

\* The methods in an `impl<M: AnyBitMode> Port<M>` block instead.
IsAnyPort(p) == TRUE

\* `impl Port<bitmode::Serial>`: the methods below exist only on a Port whose
\* mode parameter is Serial.
IsSerialPort(p) == p.mode = "Serial"

SerialOp(p) == ~Panicked /\ BagIn(p, ports) /\ IsSerialPort(p)

PollModemStatus(p, o, buf) ==
  /\ SerialOp(p)
  /\ PortRead("poll_modem_status", p, ReqPollModemStatus, 2, o, buf,
              FromBitsTruncate(FromLeBytes(buf)))

\* The levels exchanged.
DtrValueInverted(dtr) ==
  IF dtr THEN MODEM_CTRL_SET_DTR_LOW ELSE MODEM_CTRL_SET_DTR_HIGH

\* set_dtr: the value it selects.
DtrValue(dtr) ==
  IF dtr THEN MODEM_CTRL_SET_DTR_HIGH ELSE MODEM_CTRL_SET_DTR_LOW

\* set_rts: the value it selects.
RtsValue(rts) ==
  IF rts THEN MODEM_CTRL_SET_RTS_HIGH ELSE MODEM_CTRL_SET_RTS_LOW

SetDtr(p, dtr, o) ==
  /\ SerialOp(p)
  /\ PortWrite("set_dtr", p, <<dtr>>, ReqSetModemCtrl, DtrValue(dtr), o)

SetRts(p, rts, o) ==
  /\ SerialOp(p)
  /\ PortWrite("set_rts", p, <<rts>>, ReqSetModemCtrl, RtsValue(rts), o)

SetFlowControl(p, flow, o) ==
  /\ SerialOp(p)
  /\ PortWrite("set_flow_control", p, <<flow>>, ReqSetFlowCtrl,
               FlowControlValue(flow), o)

SetSerialConfig(p, parity, stop, break_condition, o) ==
  /\ SerialOp(p)
  /\ PortWrite("set_serial_config", p, <<parity, stop, break_condition>>,
               ReqSetData, SerialConfigValue(parity, stop, break_condition), o)

SetEventChar(p, event, o) ==
  /\ SerialOp(p)
  /\ PortWrite("set_event_char", p, <<event>>, ReqSetEventChar,
               CharValue(event), o)

SetErrorChar(p, error, o) ==
  /\ SerialOp(p)
  /\ PortWrite("set_error_char", p, <<error>>, ReqSetErrorChar,
               CharValue(error), o)

ReadLatencyTimer(p, o, buf) ==
  /\ SerialOp(p)
  /\ PortRead("read_latency_timer", p, ReqGetLatencyTimer, 1, o, buf, buf[1])

\* The assertion with a strict comparison: 12 < time.
LatencyAboveTwelve(time) == 12 < time

\* The assertion of set_latency_timer: 12 <= time.
LatencyInRange(time) == 12 <= time

SetLatencyTimer(p, time, o) ==
  /\ SerialOp(p)
  /\ IF ~LatencyInRange(time)
     THEN /\ result' = Result("set_latency_timer", "Panic", <<p, time>>, None)
          /\ calls' = <<>>
          /\ answers' = <<>>
          /\ borrows' = <<>>
          /\ UNCHANGED <<scan, device, ftdi, usb, ports>>
     ELSE PortWrite("set_latency_timer", p, <<time>>, ReqSetLatencyTimer,
                    time % U16, o)

(***************************************************************************)
(* lib.rs: the enumerator.  An entry of the scan is what the USB layer     *)
(* reports of a listed device: its ids (in its device descriptor), its bus *)
(* number and address, and the raw device Ftdi::open is given.             *)
(***************************************************************************)
VID_FTDI == 1027
PIDS_FTDI == {24577, 24592, 24593, 24597}

\* A call made on the k-th device of the scan.
DeviceCall(name, k) == Call(name, 0, 0, 0, k, 0, 0)

\* The closures handed to open_filtered and devices_filtered, applied to the
\* k-th entry `e` of the scan, as [verdict, calls, answers]; the verdict is
\* "Match" for Ok(true), "NoMatch" for Ok(false) and "Err" for Err(e).
IdsVerdict(e, k, matches) ==
  [verdict |-> IF IsNone(e.raw.descr) THEN "Err"
               ELSE IF matches THEN "Match" ELSE "NoMatch",
   calls |-> <<DeviceCall("device_descriptor", k)>>,
   answers |-> <<IF IsNone(e.raw.descr) THEN "Err" ELSE "Ok">>]

\* open_unique and devices: vendor_id() == VID_FTDI &&
\* PIDS_FTDI.contains(&product_id()).
FilterFtdi(e, k) ==
  IdsVerdict(e, k, e.vendor_id = VID_FTDI /\ e.product_id \in PIDS_FTDI)

\* open_by_id and devices_by_id: vendor_id() == vid && product_id() == pid.
FilterById(e, k, vid, pid) ==
  IdsVerdict(e, k, e.vendor_id = vid /\ e.product_id = pid)

\* open_by_addr: bus_number() == bus_number && address() == device_address;
\* && evaluates address() only when the bus numbers are equal.
FilterByAddr(e, k, bus_number, device_address) ==
  [verdict |-> IF e.bus_number = bus_number /\ e.address = device_address
               THEN "Match" ELSE "NoMatch",
   calls |-> IF e.bus_number = bus_number
             THEN <<DeviceCall("bus_number", k), DeviceCall("address", k)>>
             ELSE <<DeviceCall("bus_number", k)>>,
   answers |-> IF e.bus_number = bus_number THEN <<"Ok", "Ok">> ELSE <<"Ok">>]

\* The filter of an API call `api` with arguments `args`.
Filter(api, args, e, k) ==
  CASE api \in {"open_unique", "devices"} -> FilterFtdi(e, k)
    [] api \in {"open_by_id", "devices_by_id"} -> FilterById(e, k, args[1], args[2])
    [] api = "open_by_addr" -> FilterByAddr(e, k, args[1], args[2])

\* A later match replaces the selection.
SelectLastWins(selected, verdict, k) ==
  [kind |-> IF verdict = "Err" THEN "Usb" ELSE "Continue",
   selected |-> IF verdict = "Match" THEN Some(k) ELSE selected]

\* The body of the loop of open_filtered for the k-th device: `filter(..)?`
\* returns the filter's error; a match while a device is selected returns
\* MultipleDevicesFound; a match otherwise selects the device.
SelectStep(selected, verdict, k) ==
  IF verdict = "Err" THEN [kind |-> "Usb", selected |-> selected]
  ELSE IF verdict = "Match" /\ IsSome(selected)
    THEN [kind |-> "MultipleDevicesFound", selected |-> selected]
  ELSE IF verdict = "Match"
    THEN [kind |-> "Continue", selected |-> Some(k)]
  ELSE [kind |-> "Continue", selected |-> selected]

\* The loop of open_filtered from the k-th device on, as
\* [kind, selected, calls, answers]; kind is "Continue" when the loop ends
\* without returning.
RECURSIVE OpenFilteredLoop(_, _, _, _, _)
OpenFilteredLoop(api, args, list, k, selected) ==
  IF k > Len(list)
  THEN [kind |-> "Continue", selected |-> selected, calls |-> <<>>,
        answers |-> <<>>]
  ELSE LET f == Filter(api, args, list[k], k)
           step == SelectStep(selected, f.verdict, k)
       IN  IF step.kind # "Continue"
           THEN [kind |-> step.kind, selected |-> step.selected,
                 calls |-> f.calls, answers |-> f.answers]
           ELSE LET rest == OpenFilteredLoop(api, args, list, k + 1,
                                             step.selected)
                IN  [rest EXCEPT !.calls = f.calls \o @,
                                 !.answers = f.answers \o @]

\* Ftdi::open_filtered, as [kind, properties, opened, calls, answers]:
\* `opened` is the position of the device handed to Ftdi::open, if any;
\* `listed` is whether rusb::devices() succeeds.
OpenFilteredOutcome(api, args, list, listed) ==
  LET devs == <<PlainCall("devices")>>
      loop == OpenFilteredLoop(api, args, list, 1, None)
  IN  IF ~listed
        THEN [kind |-> "Usb", properties |-> 0, opened |-> None,
              calls |-> devs, answers |-> <<"Err">>]
      ELSE IF loop.kind # "Continue"
        THEN [kind |-> loop.kind, properties |-> 0, opened |-> None,
              calls |-> devs \o loop.calls, answers |-> <<"Ok">> \o loop.answers]
      ELSE IF IsNone(loop.selected)
        THEN [kind |-> "NoDeviceFound", properties |-> 0, opened |-> None,
              calls |-> devs \o loop.calls, answers |-> <<"Ok">> \o loop.answers]
      ELSE LET out == OpenOutcome(list[Unwrap(loop.selected)].raw) IN
           [kind |-> out.kind, properties |-> out.properties,
            opened |-> loop.selected,
            calls |-> devs \o loop.calls \o out.calls,
            answers |-> <<"Ok">> \o loop.answers \o out.answers]

\* open_unique, open_by_id and open_by_addr, applied to the scan.
OpenFiltered(api, args, listed) ==
  /\ ~Panicked
  /\ IsNone(ftdi) /\ ~usb.open /\ usb.num_interfaces = 0
  /\ result.op = "init"
  /\ LET out == OpenFilteredOutcome(api, args, scan, listed) IN
       /\ calls' = out.calls
       /\ answers' = out.answers
       /\ borrows' = <<>>
       /\ result' = Result(api, out.kind, args, out.opened)
       /\ device' = IF IsSome(out.opened) THEN scan[Unwrap(out.opened)].raw
                    ELSE device
       /\ IF out.kind = "Ok"
          THEN /\ ftdi' = Some([properties |-> out.properties,
                                timeout |-> DEFAULT_TIMEOUT])
               /\ usb' = [open |-> TRUE,
                          num_interfaces |-> Len(Unwrap(device'.config)),
                          claimed |-> {},
                          bitmode |-> [i \in 1..Len(Unwrap(device'.config)) |-> 0],
                          eeprom |-> usb.eeprom]
          ELSE UNCHANGED <<ftdi, usb>>
  /\ UNCHANGED <<scan, ports>>

\* The entry of a device whose open fails left out.
DevicesEntryDropErrors(e, k, verdict) ==
  IF verdict = "Match" /\ OpenOutcome(e.raw).kind = "Ok"
  THEN <<[device |-> k, kind |-> "Ok",
          properties |-> OpenOutcome(e.raw).properties,
          timeout |-> DEFAULT_TIMEOUT]>>
  ELSE <<>>

\* The body of the loop of devices_filtered for the k-th device: what it
\* pushes onto `vec`.  Ok(true) pushes the Result of Ftdi::open, Ok(false)
\* nothing, Err(e) pushes Err(e).
DevicesEntry(e, k, verdict) ==
  CASE verdict = "Match" ->
         <<[device |-> k, kind |-> OpenOutcome(e.raw).kind,
            properties |-> OpenOutcome(e.raw).properties,
            timeout |-> DEFAULT_TIMEOUT]>>
    [] verdict = "NoMatch" -> <<>>
    [] verdict = "Err" ->
         <<[device |-> k, kind |-> "Usb", properties |-> 0,
            timeout |-> DEFAULT_TIMEOUT]>>

\* The loop of devices_filtered from the k-th device on, as
\* [vec, calls, answers].
RECURSIVE DevicesLoop(_, _, _, _)
DevicesLoop(api, args, list, k) ==
  IF k > Len(list) THEN [vec |-> <<>>, calls |-> <<>>, answers |-> <<>>]
  ELSE LET f == Filter(api, args, list[k], k)
           out == OpenOutcome(list[k].raw)
           here == DevicesEntry(list[k], k, f.verdict)
           rest == DevicesLoop(api, args, list, k + 1)
       IN  [vec |-> here \o rest.vec,
            calls |-> f.calls
                      \o (IF f.verdict = "Match" THEN out.calls ELSE <<>>)
                      \o rest.calls,
            answers |-> f.answers
                        \o (IF f.verdict = "Match" THEN out.answers ELSE <<>>)
                        \o rest.answers]

\* devices and devices_by_id, applied to the scan.  The handles opened live
\* in the sequence returned.
DevicesFiltered(api, args, listed) ==
  /\ ~Panicked
  /\ IsNone(ftdi) /\ ~usb.open /\ usb.num_interfaces = 0
  /\ result.op = "init"
  /\ LET loop == DevicesLoop(api, args, scan, 1) IN
       IF listed
       THEN /\ calls' = <<PlainCall("devices")>> \o loop.calls
            /\ answers' = <<"Ok">> \o loop.answers
            /\ borrows' = <<>>
            /\ result' = Result(api, "Ok", args, Some(loop.vec))
       ELSE /\ calls' = <<PlainCall("devices")>>
            /\ answers' = <<"Err">>
            /\ borrows' = <<>>
            /\ result' = Result(api, "Usb", args, None)
  /\ UNCHANGED <<scan, device, ftdi, usb, ports>>

(***************************************************************************)
(* lib.rs: the device-scope operations of Ftdi.                            *)
(***************************************************************************)
\* Ftdi::serial and Ftdi::product: dev_descr() reads the device descriptor
\* again (it was readable when the handle was opened), then one string read
\* whose error is mapped by Error::usb.
StringRead(op, name, ok) ==
  /\ ~Panicked
  /\ IsSome(ftdi)
  /\ calls' = <<PlainCall("device_descriptor"), PlainCall(name)>>
  /\ answers' = <<"Ok", IF ok THEN "Ok" ELSE "Err">>
  /\ borrows' = Statement \o Statement
  /\ result' = Result(op, IF ok THEN "Ok" ELSE "Usb", <<>>,
                      IF ok THEN Some(name) ELSE None)
  /\ UNCHANGED <<scan, device, ftdi, usb, ports>>

Serial(ok) == StringRead("serial", "read_serial_number_string_ascii", ok)

Product(ok) == StringRead("product", "read_product_string_ascii", ok)

\* Ftdi::reset_device: self.dev().reset().map_err(Error::usb).
ResetDevice(ok) ==
  /\ ~Panicked
  /\ IsSome(ftdi)
  /\ calls' = <<PlainCall("reset")>>
  /\ answers' = <<IF ok THEN "Ok" ELSE "Err">>
  /\ borrows' = Statement
  /\ result' = Result("reset_device", IF ok THEN "Ok" ELSE "Usb", <<>>, None)
  /\ UNCHANGED <<scan, device, ftdi, usb, ports>>

\* How a control transfer's answer becomes the outcome of the three EEPROM
\* operations: Err(e) is mapped by Error::usb and returned by `?`; then
\* assert_eq!(n, 2) or assert_eq!(n, 0) panics on another byte count.
EepromKind(outcome) ==
  CASE outcome = "Err"   -> "Usb"
    [] outcome = "Count" -> "Panic"
    [] outcome = "Done"  -> "Ok"

\* Ftdi::read_eeprom_word: value field 0, index field word_addr, a buffer of
\* two bytes, the handle's timeout.
ReadEepromCall(f, word_addr) ==
  Call("read_control", REQ_READ, ReqReadEeprom, 0, word_addr % U16, 2, f.timeout)

ReadEepromWord(word_addr, o) ==
  /\ ~Panicked
  /\ IsSome(ftdi)
  /\ LET call == ReadEepromCall(Unwrap(ftdi), word_addr) IN
       /\ calls' = <<call>>
       /\ answers' = <<o>>
       /\ borrows' = Statement
       /\ result' = Result("read_eeprom_word", EepromKind(o), <<word_addr>>,
                           IF o = "Done"
                           THEN Some(FromLeBytes(UsbEepromRead(usb, call)))
                           ELSE None)
  /\ UNCHANGED <<scan, device, ftdi, usb, ports>>

\* Ftdi::write_eeprom_word: value field word, index field word_addr, no
\* payload, the handle's timeout.
WriteEepromCall(f, word_addr, word) ==
  Call("write_control", REQ_WRITE, ReqWriteEeprom, word % U16, word_addr % U16,
       0, f.timeout)

WriteEepromWord(word_addr, word, o) ==
  /\ ~Panicked
  /\ IsSome(ftdi)
  /\ LET call == WriteEepromCall(Unwrap(ftdi), word_addr, word) IN
       /\ calls' = <<call>>
       /\ answers' = <<o>>
       /\ borrows' = Statement
       /\ usb' = UsbEepromWrite(usb, call, o)
       /\ result' = Result("write_eeprom_word", EepromKind(o),
                           <<word_addr, word>>, None)
  /\ UNCHANGED <<scan, device, ftdi, ports>>

\* Ftdi::erase_eeprom(timeout): value and index fields 0, no payload, the
\* timeout of the argument.
EraseEepromCall(timeout) ==
  Call("write_control", REQ_WRITE, ReqEraseEeprom, 0, 0, 0, timeout)

EraseEeprom(timeout, o) ==
  /\ ~Panicked
  /\ IsSome(ftdi)
  /\ LET call == EraseEepromCall(timeout) IN
       /\ calls' = <<call>>
       /\ answers' = <<o>>
       /\ borrows' = Statement
       /\ usb' = UsbEepromWrite(usb, call, o)
       /\ result' = Result("erase_eeprom", EepromKind(o), <<timeout>>, None)
  /\ UNCHANGED <<scan, device, ftdi, ports>>

(***************************************************************************)
(* The inputs.                                                             *)
(***************************************************************************)
Min(a, b) == IF a <= b THEN a ELSE b

\* Hardware revisions: every major up to MaxMajor; minor and sub-minor zero
\* or not.
Descriptors ==
  [num_configurations : {1, 2}, major : 0..MaxMajor,
   minor : {0, 1}, sub_minor : {0, 1}]

\* An interface with one descriptor and two endpoints, and the other shapes.
GoodInterface == <<2>>
InterfaceShapes == {<<>>, <<1>>, <<2>>, <<3>>, <<2, 2>>}

\* Configurations of n interfaces, all good but at most one.
Configs(n) ==
  {[i \in 1..n |-> GoodInterface]} \cup
  {[i \in 1..n |-> IF i = k THEN shape ELSE GoodInterface] :
     k \in 1..n, shape \in InterfaceShapes}

AllConfigs == UNION {Configs(n) : n \in 0..MaxInterfaces}

\* Every raw device the enumeration can hand to Ftdi::open.
RawDevices ==
  [descr : {None} \cup {Some(x) : x \in Descriptors},
   config : {None} \cup {Some(c) : c \in AllConfigs},
   open_ok : BOOLEAN]

\* The raw devices of the port life cycle: readable descriptors, any major,
\* 1..MaxPorts good interfaces.
LifecycleDevices ==
  {d \in RawDevices :
     /\ IsSome(d.descr) /\ IsSome(d.config)
     /\ Unwrap(d.descr).num_configurations = 1
     /\ Unwrap(d.descr).minor = 0 /\ Unwrap(d.descr).sub_minor = 0
     /\ Len(Unwrap(d.config)) \in 1..MaxPorts
     /\ \A i \in 1..Len(Unwrap(d.config)) : Unwrap(d.config)[i] = GoodInterface}

\* The raw devices behind the entries: an FT232R that opens, one whose open
\* fails, and a device whose descriptor cannot be read.
Ft232r(open_ok) ==
  [descr |-> Some([num_configurations |-> 1, major |-> 6, minor |-> 0,
                   sub_minor |-> 0]),
   config |-> Some(<<GoodInterface>>), open_ok |-> open_ok]
Unreadable == [descr |-> None, config |-> None, open_ok |-> FALSE]

\* The into_mode targets of the port life cycle.
LifecycleModes == {ModeSeq[i] : i \in 1..Min(NumModes, Len(ModeSeq))}

Timeouts == {DEFAULT_TIMEOUT, 2 * DEFAULT_TIMEOUT}
PortIndexes == 0..MaxPorts
ResetFlags == {0, PURGE_RX_TX}
Bytes1 == {<<0>>, <<255>>}
Bytes2 == {<<1, 0>>, <<255, 255>>}
Chars == {None, Some(0)}
Latencies == {11, 12}
SerialConfigs == {<<"None", "Stop1", FALSE>>, <<"Even", "Stop2", TRUE>>}
\* Every value of the argument types of the serial operations: u8, Option<u8>,
\* (Parity, StopBits, bool), and every two-byte answer of the device.
Bytes == 0..(U8 - 1)
AllChars == {None} \cup {Some(b) : b \in Bytes}
AllSerialConfigs == Parity \X StopBits \X BOOLEAN
StatusBufs == {<<lo, hi>> : lo \in Bytes, hi \in Bytes}
\* The endpoint addresses the caller passes to Port::open.
EndpointsIn == {129}
EndpointsOut == {2}

\* Word addresses within the simulated EEPROM, and words to write.
EepromAddrs == 0..MaxAddr
Words == {0, 258, ErasedWord}

LivePorts == BagToSet(ports)

\* The USB layer's answers to the calls of open_port: the claim fails, or the
\* Reset or the SetBitmode transfer fails (and the release that follows
\* succeeds or not), or all succeed.
OpenAnswers ==
  {[avail |-> FALSE, o1 |-> "Done", o2 |-> "Done", rel |-> TRUE],
   [avail |-> TRUE, o1 |-> "Done", o2 |-> "Done", rel |-> TRUE]} \cup
  {[avail |-> TRUE, o1 |-> o, o2 |-> "Done", rel |-> r] :
     o \in Outcomes \ {"Done"}, r \in BOOLEAN} \cup
  {[avail |-> TRUE, o1 |-> "Done", o2 |-> o, rel |-> r] :
     o \in Outcomes \ {"Done"}, r \in BOOLEAN}

\* ... and to those of into_mode.
IntoAnswers ==
  {[o |-> "Done", rel |-> TRUE]} \cup
  {[o |-> o, rel |-> r] : o \in Outcomes \ {"Done"}, r \in BOOLEAN}

HandleStep ==
  \/ \E t \in Timeouts : SetTimeout(t)
  \/ FtdiDrop

\* The device-scope operations of the handle, writing the words of `words`.
DeviceStep(words) ==
  \/ \E ok \in BOOLEAN : Serial(ok)
  \/ \E ok \in BOOLEAN : Product(ok)
  \/ \E ok \in BOOLEAN : ResetDevice(ok)
  \/ \E a \in EepromAddrs, o \in Outcomes : ReadEepromWord(a, o)
  \/ \E a \in EepromAddrs, w \in words, o \in Outcomes : WriteEepromWord(a, w, o)
  \/ \E t \in Timeouts, o \in Outcomes : EraseEeprom(t, o)

PortStep(modes) ==
  \/ \E i \in PortIndexes, ep_in \in EndpointsIn, ep_out \in EndpointsOut,
        a \in OpenAnswers :
        OpenPort(i, ep_in, ep_out, a.avail, a.o1, a.o2, a.rel)
  \/ \E p \in LivePorts, T \in modes, a \in IntoAnswers :
        IntoMode(p, T, a.o, a.rel)
  \/ \E p \in LivePorts, rel \in BOOLEAN : DropPort(p, rel)
  \/ \E p \in LivePorts, flags \in ResetFlags, o \in Outcomes : Reset(p, flags, o)
  \/ \E p \in LivePorts, o \in Outcomes, buf \in Bytes1 : ReadPins(p, o, buf)

SerialStep ==
  \/ \E p \in LivePorts, o \in Outcomes, buf \in Bytes2 : PollModemStatus(p, o, buf)
  \/ \E p \in LivePorts, b \in BOOLEAN, o \in Outcomes : SetDtr(p, b, o)
  \/ \E p \in LivePorts, b \in BOOLEAN, o \in Outcomes : SetRts(p, b, o)
  \/ \E p \in LivePorts, f \in FlowControl, o \in Outcomes : SetFlowControl(p, f, o)
  \/ \E p \in LivePorts, c \in SerialConfigs, o \in Outcomes :
        SetSerialConfig(p, c[1], c[2], c[3], o)
  \/ \E p \in LivePorts, c \in Chars, o \in Outcomes : SetEventChar(p, c, o)
  \/ \E p \in LivePorts, c \in Chars, o \in Outcomes : SetErrorChar(p, c, o)
  \/ \E p \in LivePorts, o \in Outcomes, buf \in Bytes1 : ReadLatencyTimer(p, o, buf)
  \/ \E p \in LivePorts, t \in Latencies, o \in Outcomes : SetLatencyTimer(p, t, o)

(***************************************************************************)
(* Spec: the life of one handle and its Ports.                             *)
(***************************************************************************)
Init == InitOn(LifecycleDevices) /\ scan = <<>>

Next ==
  \/ FtdiOpen
  \/ HandleStep
  \/ PortStep(LifecycleModes)
  \/ SerialStep

Spec == Init /\ [][Next]_vars

(***************************************************************************)
(* SpecModes: the life of the one Port of a single-port device, with every *)
(* bit mode as an into_mode target.                                        *)
(***************************************************************************)
SinglePortDevices == {d \in LifecycleDevices : Len(Unwrap(d.config)) = 1}

InitModes == InitOn(SinglePortDevices) /\ scan = <<>>

NextModes ==
  \/ FtdiOpen
  \/ HandleStep
  \/ PortStep(AnyBitMode)
  \/ SerialStep

SpecModes == InitModes /\ [][NextModes]_vars

(***************************************************************************)
(* SpecDevice: the device-scope operations of the handle of a two-port     *)
(* device (an FT2232H), next to the operations of its Ports; the EEPROM    *)
(* stays erased and the timeout the default.                               *)
(***************************************************************************)
TwoPortDevices ==
  {d \in LifecycleDevices :
     /\ Unwrap(d.descr).major = 7
     /\ Len(Unwrap(d.config)) = 2
     /\ d.open_ok}

InitDevice == InitOn(TwoPortDevices) /\ scan = <<>>

NextDevice ==
  \/ FtdiOpen
  \/ FtdiDrop
  \/ DeviceStep({ErasedWord})
  \/ PortStep(LifecycleModes)
  \/ SerialStep

SpecDevice == InitDevice /\ [][NextDevice]_vars

(***************************************************************************)
(* SpecEeprom: the device-scope operations of the handle of an FT232R on   *)
(* an EEPROM of MaxAddr + 1 words.                                         *)
(***************************************************************************)
InitEeprom == InitOn({Ft232r(TRUE)}) /\ scan = <<>>

NextEeprom ==
  \/ FtdiOpen
  \/ HandleStep
  \/ DeviceStep(Words)

SpecEeprom == InitEeprom /\ [][NextEeprom]_vars

(***************************************************************************)
(* SpecEnum: one call of an enumerator API on every scan of at most        *)
(* MaxScan devices.                                                        *)
(***************************************************************************)
\* Ids as the descriptors report them: FTDI's with two official product ids
\* and another one, and another vendor's.
ScanIds == {<<VID_FTDI, 24577>>, <<VID_FTDI, 24592>>, <<VID_FTDI, 4660>>,
            <<4660, 24577>>}
ScanAddrs == {<<1, 1>>, <<1, 2>>}

ScanEntry(ids, addr, raw) ==
  [vendor_id |-> ids[1], product_id |-> ids[2], bus_number |-> addr[1],
   address |-> addr[2], raw |-> raw]

ScanEntries ==
  {ScanEntry(<<VID_FTDI, 24577>>, <<1, 1>>, Ft232r(TRUE)),
   ScanEntry(<<VID_FTDI, 24592>>, <<1, 2>>, Ft232r(FALSE)),
   ScanEntry(<<VID_FTDI, 24577>>, <<1, 2>>, Unreadable),
   ScanEntry(<<VID_FTDI, 4660>>, <<1, 1>>, Ft232r(TRUE)),
   ScanEntry(<<4660, 24577>>, <<1, 2>>, Ft232r(TRUE)),
   ScanEntry(<<4660, 24577>>, <<1, 1>>, Unreadable)}

Scans == UNION {[1..n -> ScanEntries] : n \in 0..MaxScan}

InitEnum ==
  /\ InitOn({[descr |-> None, config |-> None, open_ok |-> FALSE]})
  /\ scan \in Scans

EnumStep ==
  \/ \E listed \in BOOLEAN : OpenFiltered("open_unique", <<>>, listed)
  \/ \E i \in ScanIds, listed \in BOOLEAN : OpenFiltered("open_by_id", i, listed)
  \/ \E a \in ScanAddrs, listed \in BOOLEAN : OpenFiltered("open_by_addr", a, listed)
  \/ \E listed \in BOOLEAN : DevicesFiltered("devices", <<>>, listed)
  \/ \E i \in ScanIds, listed \in BOOLEAN : DevicesFiltered("devices_by_id", i, listed)

NextEnum ==
  \/ EnumStep
  \/ HandleStep

SpecEnum == InitEnum /\ [][NextEnum]_vars

(***************************************************************************)
(* SpecOpen: Ftdi::open on every raw device.                               *)
(***************************************************************************)
InitOpen == InitOn(RawDevices) /\ scan = <<>>

NextOpen ==
  \/ FtdiOpen
  \/ HandleStep

SpecOpen == InitOpen /\ [][NextOpen]_vars

(***************************************************************************)
(* SpecSerial: one serial operation on the freshly opened Port of a        *)
(* single-port device, over every value of its arguments and every answer  *)
(* of the device.                                                          *)
(***************************************************************************)
InitSerial == InitOn({Ft232r(TRUE)}) /\ scan = <<>>

JustOpened == result.op = "open_port" /\ result.kind = "Ok"

OpenStep ==
  /\ LivePorts = {}
  /\ \E i \in PortIndexes, ep_in \in EndpointsIn, ep_out \in EndpointsOut,
        a \in OpenAnswers :
        OpenPort(i, ep_in, ep_out, a.avail, a.o1, a.o2, a.rel)

PollStep ==
  /\ JustOpened
  /\ \E p \in LivePorts, o \in Outcomes, buf \in StatusBufs :
        PollModemStatus(p, o, buf)

FlowControlStep ==
  /\ JustOpened
  /\ \E p \in LivePorts, f \in FlowControl, o \in Outcomes :
        SetFlowControl(p, f, o)

SerialConfigStep ==
  /\ JustOpened
  /\ \E p \in LivePorts, c \in AllSerialConfigs, o \in Outcomes :
        SetSerialConfig(p, c[1], c[2], c[3], o)

EventCharStep ==
  /\ JustOpened
  /\ \E p \in LivePorts, c \in AllChars, o \in Outcomes : SetEventChar(p, c, o)

ErrorCharStep ==
  /\ JustOpened
  /\ \E p \in LivePorts, c \in AllChars, o \in Outcomes : SetErrorChar(p, c, o)

LatencyStep ==
  /\ JustOpened
  /\ \E p \in LivePorts, t \in Bytes, o \in Outcomes : SetLatencyTimer(p, t, o)

NextSerial ==
  \/ FtdiOpen
  \/ OpenStep
  \/ PollStep
  \/ FlowControlStep
  \/ SerialConfigStep
  \/ EventCharStep
  \/ ErrorCharStep
  \/ LatencyStep

SpecSerial == InitSerial /\ [][NextSerial]_vars

(***************************************************************************)
(* SpecTimeout: the handle of a single-port device, its timeout, its Port  *)
(* and erase_eeprom.                                                       *)
(***************************************************************************)
InitTimeout == InitOn({Ft232r(TRUE)}) /\ scan = <<>>

EraseStep == \E t \in Timeouts, o \in Outcomes : EraseEeprom(t, o)

NextTimeout ==
  \/ FtdiOpen
  \/ HandleStep
  \/ EraseStep
  \/ PortStep(LifecycleModes)
  \/ SerialStep

SpecTimeout == InitTimeout /\ [][NextTimeout]_vars

(***************************************************************************)
(* The properties.                                                         *)
(***************************************************************************)
SerialOps ==
  {"poll_modem_status", "set_dtr", "set_rts", "set_flow_control",
   "set_serial_config", "set_event_char", "set_error_char",
   "read_latency_timer", "set_latency_timer"}

PortsOn(i) == {p \in LivePorts : p.index = i}

Range(seq) == {seq[k] : k \in 1..Len(seq)}

\* C1: a serial-extension operation is only ever issued on a Port whose mode
\* tag is Serial, and then the interface's last SetBitmode request asked for
\* Serial (0x00); the mode tag of every live Port is the mode of the last
\* SetBitmode request carried out for its interface: Serial for the Port
\* open_port returns, T for the Port into_mode::<T> returns.
C1_SerialOnlyInSerialMode ==
  /\ result.op \in SerialOps =>
       /\ result.arg[1].mode = "Serial"
       /\ usb.bitmode[result.arg[1].index + 1] = 0
  /\ \A p \in LivePorts : usb.bitmode[p.index + 1] = BitMode(p.mode)
  /\ (result.op = "open_port" /\ result.kind = "Ok") =>
       Unwrap(result.ret).mode = "Serial"
  /\ (result.op = "into_mode" /\ result.kind = "Ok") =>
       Unwrap(result.ret).mode = result.arg[2]

\* A serial operation succeeded on one Port while another Port of the device
\* is in a non-serial mode.
C1_Witness ==
  /\ result.op \in SerialOps
  /\ result.kind = "Ok"
  /\ \E q \in LivePorts : q.mode # "Serial"

AtMostOnePortPerInterface ==
  \A p \in LivePorts :
    /\ CopiesIn(p, ports) = 1
    /\ \A q \in LivePorts : q.index = p.index => q = p

\* C2: at most one live Port exists per interface index, and an open_port(i)
\* made while a Port for interface i is alive returns an error of kind Usb
\* after the one claim_interface call, with no release_interface call, and
\* leaves the Ports and the claims as they were.
C2_ExclusiveClaims ==
  /\ []AtMostOnePortPerInterface
  /\ [][\A i \in PortIndexes :
          (PortsOn(i) # {} /\ result'.op = "open_port" /\ result'.arg[1] = i) =>
            /\ result'.kind = "Usb"
            /\ calls' = <<ClaimCall(i)>>
            /\ ports' = ports
            /\ usb' = usb]_vars

\* open_port(i) has just failed with Usb while a Port for interface i is
\* alive and holds the claim.
C2_Witness ==
  /\ result.op = "open_port"
  /\ result.kind = "Usb"
  /\ PortsOn(result.arg[1]) # {}
  /\ result.arg[1] \in usb.claimed
  /\ calls = <<ClaimCall(result.arg[1])>>

\* The mode bit values C3 states.
C3_ModeBits(T) ==
  CASE T = "Serial"  -> 0
    [] T = "Bitbang" -> 1
    [] T = "Mpsse"   -> 2
    [] T = "Syncbb"  -> 4
    [] T = "Mcu"     -> 8
    [] T = "Opto"    -> 16
    [] T = "Cbus"    -> 32
    [] T = "Syncff"  -> 64

\* C3: the mode bit values are pairwise distinct, and a successful
\* into_mode::<T>() makes exactly one USB-layer call, the SetBitmode (0x0B)
\* write with value (T's mode bits << 8) | 0x00 on index interface + 1: no
\* claim_interface and no release_interface; the interface is claimed before
\* and after, and the returned Port, tagged T, is the only Port on it.
C3_IntoModeEffect ==
  /\ [](\A a, b \in AnyBitMode : a # b => BitMode(a) # BitMode(b))
  /\ [][(result'.op = "into_mode" /\ result'.kind = "Ok") =>
          LET p == result'.arg[1]
              T == result'.arg[2]
              q == Unwrap(result'.ret)
          IN  /\ BagIn(p, ports)
              /\ calls' = <<Call("write_control", 64, 11, C3_ModeBits(T) * 256,
                                 p.index + 1, 0, p.timeout)>>
              /\ p.index \in usb.claimed
              /\ usb'.claimed = usb.claimed
              /\ q.mode = T
              /\ {x \in BagToSet(ports') : x.index = p.index} = {q}
              /\ CopiesIn(q, ports') = 1]_vars

\* into_mode::<Syncff>() has succeeded on a Port that was in Mpsse mode.
C3_Witness ==
  /\ result.op = "into_mode"
  /\ result.kind = "Ok"
  /\ result.arg[1].mode = "Mpsse"
  /\ result.arg[2] = "Syncff"
  /\ calls[1].value = 16384

Releases(cs) == {k \in 1..Len(cs) : cs[k].call = "release_interface"}

\* C4 as stated: every drop of a Port and every into_mode, successful or
\* not, calls release_interface for the Port's interface.
C4_ReleasedWheneverConsumed ==
  [][result'.op \in {"drop_port", "into_mode"} =>
       ReleaseCall(result'.arg[1].index) \in Range(calls')]_vars

\* C4, amended: when a Port's lifetime ends (it is dropped; into_mode fails;
\* open_port fails after its claim succeeded) release_interface is called
\* exactly once, for the Port's interface, as the last call; a successful
\* into_mode calls no release_interface and the interface stays claimed.
C4_ReleaseAtEndOfLife ==
  [][/\ (\/ result'.op = "drop_port"
         \/ result'.op = "into_mode" /\ result'.kind # "Ok") =>
          /\ BagIn(result'.arg[1], ports)
          /\ ports' = ports (-) SetToBag({result'.arg[1]})
          /\ Releases(calls') = {Len(calls')}
          /\ calls'[Len(calls')] = ReleaseCall(result'.arg[1].index)
     /\ (result'.op = "open_port" /\ result'.kind \in {"Usb", "Other"}
           /\ Len(calls') > 1) =>
          /\ Releases(calls') = {Len(calls')}
          /\ calls'[Len(calls')] = ReleaseCall(result'.arg[1])
          /\ ports' = ports
     /\ (result'.op = "into_mode" /\ result'.kind = "Ok") =>
          /\ Releases(calls') = {}
          /\ result'.arg[1].index \in usb'.claimed]_vars

\* into_mode has failed and released the interface of the Port it consumed.
C4_Witness ==
  /\ result.op = "into_mode"
  /\ result.kind = "Other"
  /\ calls[Len(calls)] = ReleaseCall(result.arg[1].index)
  /\ result.arg[1].index \notin usb.claimed

\* C5: a successful open_port(index) has made three USB-layer calls: first
\* claim_interface(index), then the Reset (0x00) write with value 3 and the
\* SetBitmode (0x0B) write with value 0x0000, both on index field index + 1;
\* it returns a Port on `index` in Serial mode, and the interface is claimed
\* and in mode 0x00.
C5_OpenPortNormalizes ==
  (result.op = "open_port" /\ result.kind = "Ok") =>
    LET i == result.arg[1]
        q == Unwrap(result.ret)
    IN  /\ Len(calls) = 3
        /\ calls[1] = ClaimCall(i)
        /\ {calls[2], calls[3]} =
             {Call("write_control", 64, 0, 3, i + 1, 0, q.timeout),
              Call("write_control", 64, 11, 0, i + 1, 0, q.timeout)}
        /\ q.mode = "Serial"
        /\ q.index = i
        /\ BagIn(q, ports)
        /\ i \in usb.claimed
        /\ usb.bitmode[i + 1] = 0

\* open_port(1) has succeeded while the Port on interface 0 is in a
\* non-serial mode.
C5_Witness ==
  /\ result.op = "open_port"
  /\ result.kind = "Ok"
  /\ result.arg[1] = 1
  /\ \E p \in PortsOn(0) : p.mode # "Serial"

\* C6: the index of every live Port is below the port count of its device
\* (its parent handle's num_ports() while the handle lives), and an
\* open_port(index) with index >= num_ports() panics with no USB-layer call,
\* no Port, and the handle, the claims and the Ports as they were.
C6_IndexInRange ==
  /\ [](\A p \in LivePorts :
          /\ p.index < Len(Props(p.properties).ports)
          /\ IsSome(ftdi) =>
               /\ p.properties = Unwrap(ftdi).properties
               /\ p.index < NumPorts(Unwrap(ftdi)))
  /\ [][(/\ result'.op = "open_port"
         /\ IsSome(ftdi)
         /\ result'.arg[1] >= NumPorts(Unwrap(ftdi))) =>
          /\ result'.kind = "Panic"
          /\ calls' = <<>>
          /\ IsNone(result'.ret)
          /\ UNCHANGED <<ftdi, usb, ports>>]_vars

\* open_port(2) has panicked on the two-port device while a Port is alive.
C6_Witness ==
  /\ result.op = "open_port"
  /\ result.kind = "Panic"
  /\ result.arg[1] = 2
  /\ IsSome(ftdi) /\ NumPorts(Unwrap(ftdi)) = 2
  /\ LivePorts # {}

\* Port::pin_count.
PinCount(p) == Props(p.properties).port_width

\* C7: a successful into_mode replaces the Port it consumes by a Port with
\* the same index, timeout and DeviceProps reference (so the same
\* pin_count()); by induction index() is the argument of open_port after any
\* chain of transitions.
C7_IntoModeKeepsIdentity ==
  [][(result'.op = "into_mode" /\ result'.kind = "Ok") =>
       LET p == result'.arg[1]
           q == Unwrap(result'.ret)
       IN  /\ BagIn(p, ports)
           /\ ports' = (ports (-) SetToBag({p})) (+) SetToBag({q})
           /\ q.index = p.index
           /\ q.timeout = p.timeout
           /\ q.properties = p.properties
           /\ PinCount(q) = PinCount(p)
           /\ q.ep_in = p.ep_in /\ q.ep_out = p.ep_out]_vars

\* A second into_mode in a row has succeeded on the Port of interface 1,
\* whose timeout is no longer the handle's.
C7_Witness ==
  /\ result.op = "into_mode"
  /\ result.kind = "Ok"
  /\ result.arg[1].mode # "Serial"
  /\ Unwrap(result.ret).index = 1
  /\ IsSome(ftdi)
  /\ Unwrap(result.ret).timeout # Unwrap(ftdi).timeout

\* The rows of the table C8 states, by major version.
C8_Row(major) ==
  CASE major = 2  -> [model |-> "FT232AM", tx_buf |-> 128, rx_buf |-> 128,
                      port_width |-> 0, ports |-> <<"No">>]
    [] major = 4  -> [model |-> "FT232BM", tx_buf |-> 128, rx_buf |-> 384,
                      port_width |-> 0, ports |-> <<"No">>]
    [] major = 5  -> [model |-> "FT2232C/D", tx_buf |-> 128, rx_buf |-> 384,
                      port_width |-> 12, ports |-> <<"Basic">>]
    [] major = 6  -> [model |-> "FT232R", tx_buf |-> 256, rx_buf |-> 128,
                      port_width |-> 8, ports |-> <<"No">>]
    [] major = 7  -> [model |-> "FT2232H", tx_buf |-> 4096, rx_buf |-> 4096,
                      port_width |-> 16, ports |-> <<"H", "H">>]
    [] major = 8  -> [model |-> "FT4232H", tx_buf |-> 2048, rx_buf |-> 2048,
                      port_width |-> 8, ports |-> <<"H", "H", "No", "No">>]
    [] major = 9  -> [model |-> "FT232H", tx_buf |-> 1024, rx_buf |-> 1024,
                      port_width |-> 16, ports |-> <<"FT232H">>]
    [] major = 10 -> [model |-> "FT-X", tx_buf |-> 512, rx_buf |-> 512,
                      port_width |-> 8, ports |-> <<"No">>]

KnownMajors == {2, 4, 5, 6, 7, 8, 9, 10}

OpenReturned == result.op = "open"

\* C8 as stated: the lookup returns the table row for the known majors and
\* nothing for the others, and open on a device of another major fails with
\* UnsupportedDevice.
C8_UnknownMajorUnsupported ==
  (OpenReturned /\ IsSome(device.descr)) =>
    LET major == Unwrap(device.descr).major IN
      /\ major \in KnownMajors => Lookup(major) = Some(C8_Row(major))
      /\ major \notin KnownMajors =>
           /\ IsNone(Lookup(major))
           /\ result.kind = "UnsupportedDevice"

\* C8, amended: the lookup returns the table row for the known majors, which
\* is the DeviceProps of the handle a successful open returns, and nothing
\* for the others; open on a device of another major fails, with
\* UnsupportedDevice, or with Usb when the device reports one configuration
\* and reading the active configuration descriptor fails.
C8_LookupTable ==
  (OpenReturned /\ IsSome(device.descr)) =>
    LET descr == Unwrap(device.descr)
        major == descr.major
    IN  /\ major \in KnownMajors => Lookup(major) = Some(C8_Row(major))
        /\ result.kind = "Ok" =>
             /\ major \in KnownMajors
             /\ Props(Unwrap(ftdi).properties) = C8_Row(major)
        /\ major \notin KnownMajors =>
             /\ IsNone(Lookup(major))
             /\ IsNone(ftdi)
             /\ result.kind =
                  IF descr.num_configurations = 1 /\ IsNone(device.config)
                  THEN "Usb" ELSE "UnsupportedDevice"

\* open has failed with UnsupportedDevice on a well-formed device of major 11.
C8_Witness ==
  /\ OpenReturned
  /\ IsSome(device.descr) /\ IsSome(device.config)
  /\ Unwrap(device.descr).major = 11
  /\ Unwrap(device.descr).num_configurations = 1
  /\ ~VersionRejected(Unwrap(device.descr))
  /\ Unwrap(device.config) = <<GoodInterface>>
  /\ result.kind = "UnsupportedDevice"

NonZeroMinor ==
  /\ IsSome(device.descr)
  /\ \/ Unwrap(device.descr).minor # 0
     \/ Unwrap(device.descr).sub_minor # 0

\* C9 as stated: open on a device with a non-zero minor or sub-minor fails
\* with UnsupportedDevice whatever the major.
C9_NonZeroMinorUnsupported ==
  (OpenReturned /\ NonZeroMinor) => result.kind = "UnsupportedDevice"

\* C9, amended: open on a device with a non-zero minor or sub-minor never
\* returns a handle and never calls the USB layer's open, whatever the
\* major; it fails with UnsupportedDevice, or with Usb when the device
\* reports one configuration and reading the active configuration descriptor
\* fails.
C9_NonZeroMinorRejected ==
  (OpenReturned /\ NonZeroMinor) =>
    /\ IsNone(ftdi)
    /\ PlainCall("open") \notin Range(calls)
    /\ result.kind =
         IF Unwrap(device.descr).num_configurations = 1 /\ IsNone(device.config)
         THEN "Usb" ELSE "UnsupportedDevice"

\* open has failed with UnsupportedDevice on an otherwise well-formed FT232R
\* (major 6) whose sub-minor is not zero.
C9_Witness ==
  /\ OpenReturned
  /\ IsSome(device.descr) /\ IsSome(device.config)
  /\ Unwrap(device.descr) =
       [num_configurations |-> 1, major |-> 6, minor |-> 0, sub_minor |-> 1]
  /\ Unwrap(device.config) = <<GoodInterface>>
  /\ device.open_ok
  /\ result.kind = "UnsupportedDevice"

\* C10: open on a device whose major has a table row and whose active
\* configuration has another number of interfaces than that row has ports
\* fails with UnsupportedDevice; so num_ports() of a handle is the number of
\* interfaces of its device.
C10_InterfaceCount ==
  /\ (/\ OpenReturned
      /\ IsSome(device.descr) /\ IsSome(device.config)
      /\ Unwrap(device.descr).major \in KnownMajors
      /\ Len(Unwrap(device.config)) #
           Len(C8_Row(Unwrap(device.descr).major).ports)) =>
       /\ result.kind = "UnsupportedDevice"
       /\ IsNone(ftdi)
  /\ IsSome(ftdi) =>
       /\ NumPorts(Unwrap(ftdi)) = Len(Unwrap(device.config))
       /\ NumPorts(Unwrap(ftdi)) = usb.num_interfaces

\* open has failed with UnsupportedDevice on an FT2232H (major 7, two ports)
\* that reports one well-formed interface.
C10_Witness ==
  /\ OpenReturned
  /\ IsSome(device.descr) /\ IsSome(device.config)
  /\ Unwrap(device.descr) =
       [num_configurations |-> 1, major |-> 7, minor |-> 0, sub_minor |-> 0]
  /\ Unwrap(device.config) = <<GoodInterface>>
  /\ device.open_ok
  /\ result.kind = "UnsupportedDevice"

\* Both descriptors of the device handed to open are readable.
DescriptorsRead ==
  /\ OpenReturned
  /\ IsSome(device.descr)
  /\ IsSome(device.config)

\* The interface shape C11 states: exactly one descriptor set, and exactly
\* two endpoints in it.
C11_ShapeOk(intf) == Len(intf) = 1 /\ intf[1] = 2

\* C11: open fails with UnsupportedDevice on a device with an interface that
\* has no descriptor set, more than one descriptor set, or one descriptor set
\* whose endpoint count is not 2.
C11_InterfaceShape ==
  (/\ DescriptorsRead
   /\ \E i \in 1..Len(Unwrap(device.config)) :
        ~C11_ShapeOk(Unwrap(device.config)[i])) =>
    result.kind = "UnsupportedDevice"

\* Checks 1 to 5 of open as C12 states them.
C12_ChecksPass ==
  LET descr == Unwrap(device.descr)
      conf == Unwrap(device.config)
  IN  /\ descr.num_configurations = 1
      /\ \A i \in 1..Len(conf) : C11_ShapeOk(conf[i])
      /\ descr.minor = 0 /\ descr.sub_minor = 0
      /\ descr.major \in KnownMajors
      /\ Len(conf) = Len(C8_Row(descr.major).ports)

\* C12: open calls the USB layer's open only after checks 1 to 5 have all
\* passed; when one of them fails the result is UnsupportedDevice, the device
\* is not opened and there is no handle; when they pass and the USB layer's
\* open fails the result is of kind Usb; a handle returned carries the
\* default timeout.
C12_OpenAllOrNothing ==
  DescriptorsRead =>
    /\ PlainCall("open") \in Range(calls) => C12_ChecksPass
    /\ ~C12_ChecksPass =>
         /\ result.kind = "UnsupportedDevice"
         /\ IsNone(ftdi)
         /\ ~usb.open
    /\ (C12_ChecksPass /\ ~device.open_ok) =>
         /\ result.kind = "Usb"
         /\ IsNone(ftdi)
    /\ result.kind = "Ok" =>
         /\ IsSome(ftdi)
         /\ Unwrap(ftdi).timeout = 500

SingularApis == {"open_unique", "open_by_id", "open_by_addr"}

\* The scan itself succeeded: rusb::devices() returned the list.
Scanned == Len(answers) >= 1 /\ calls[1] = PlainCall("devices") /\ answers[1] = "Ok"

\* The predicate of an API holds of a scanned device, and the predicate
\* cannot be evaluated because the device's descriptor cannot be read.
PredicateHolds(api, args, e) ==
  CASE api \in {"open_unique", "devices"} ->
         /\ IsSome(e.raw.descr)
         /\ e.vendor_id = 1027
         /\ e.product_id \in {24577, 24592, 24593, 24597}
    [] api \in {"open_by_id", "devices_by_id"} ->
         /\ IsSome(e.raw.descr)
         /\ e.vendor_id = args[1]
         /\ e.product_id = args[2]
    [] api = "open_by_addr" ->
         /\ e.bus_number = args[1]
         /\ e.address = args[2]

PredicateFails(api, e) == api # "open_by_addr" /\ IsNone(e.raw.descr)

Matches(api, args) == {k \in 1..Len(scan) : PredicateHolds(api, args, scan[k])}
Unreadables(api) == {k \in 1..Len(scan) : PredicateFails(api, scan[k])}

\* The scanned devices the last operation applied its predicate to.
Evaluated == {calls[j].index : j \in 1..Len(calls)} \ {0}

SetMin(S) == CHOOSE x \in S : \A y \in S : x <= y
Max(S) == CHOOSE x \in S : \A y \in S : y <= x
SecondOf(S) == SetMin(S \ {SetMin(S)})

NothingOpened ==
  /\ IsNone(ftdi)
  /\ ~usb.open
  /\ PlainCall("open") \notin Range(calls)

\* C13 as stated: after a scan, a singular-open API returns NoDeviceFound
\* when no device matches the predicate, MultipleDevicesFound when two or
\* more match (later devices not evaluated), in both cases opening nothing,
\* and the result of open on the device when exactly one matches.
C13_SingularOpenCardinality ==
  (result.op \in SingularApis /\ Scanned) =>
    LET M == Matches(result.op, result.arg) IN
      /\ M = {} => result.kind = "NoDeviceFound" /\ NothingOpened
      /\ Cardinality(M) >= 2 =>
           /\ result.kind = "MultipleDevicesFound"
           /\ Evaluated = 1..SecondOf(M)
           /\ NothingOpened
      /\ Cardinality(M) = 1 =>
           /\ result.kind = OpenOutcome(scan[SetMin(M)].raw).kind
           /\ result.ret = Some(SetMin(M))

\* C13, amended: the scan stops with an error of kind Usb, nothing opened,
\* at the first device whose descriptor the predicate cannot read, when that
\* device comes before a second match; otherwise the result is
\* NoDeviceFound for no match, MultipleDevicesFound at the second match
\* (later devices not evaluated) for two or more, nothing opened in both
\* cases, and for one match the result of open on that device, wherever it
\* sits in the scan.
C13_SingularOpen ==
  (result.op \in SingularApis /\ Scanned) =>
    LET M == Matches(result.op, result.arg)
        E == Unreadables(result.op)
        stopped == /\ E # {}
                   /\ Cardinality(M) >= 2 => SetMin(E) < SecondOf(M)
    IN  IF stopped
          THEN /\ result.kind = "Usb"
               /\ Evaluated = 1..SetMin(E)
               /\ NothingOpened
        ELSE IF M = {}
          THEN /\ result.kind = "NoDeviceFound"
               /\ Evaluated = 1..Len(scan)
               /\ NothingOpened
        ELSE IF Cardinality(M) >= 2
          THEN /\ result.kind = "MultipleDevicesFound"
               /\ Evaluated = 1..SecondOf(M)
               /\ NothingOpened
        ELSE /\ result.kind = OpenOutcome(scan[SetMin(M)].raw).kind
             /\ result.ret = Some(SetMin(M))
             /\ device = scan[SetMin(M)].raw
             /\ Evaluated = 1..Len(scan)
             /\ IsSome(ftdi) <=> result.kind = "Ok"

\* A scan of three devices has stopped with MultipleDevicesFound at its
\* second device, the third not evaluated.
C13_Witness ==
  /\ result.op \in SingularApis
  /\ result.kind = "MultipleDevicesFound"
  /\ Len(scan) = 3
  /\ Evaluated = {1, 2}
  /\ NothingOpened

PluralApis == {"devices", "devices_by_id"}

\* The sequence a plural API returned has one entry for each device of S and
\* no other, in scan order.
EntriesAre(vec, S) ==
  /\ Len(vec) = Cardinality(S)
  /\ {vec[j].device : j \in 1..Len(vec)} = S
  /\ \A i, j \in 1..Len(vec) : i < j => vec[i].device < vec[j].device

\* C14 as stated: devices() and devices_by_id() return one Result per scanned
\* device that matches the id filter, in scan order, and nothing for the
\* others; the Result of a device is that of open on it.
C14_OnePerMatch ==
  (result.op \in PluralApis /\ Scanned) =>
    /\ result.kind = "Ok"
    /\ LET vec == Unwrap(result.ret)
           M == Matches(result.op, result.arg)
       IN  /\ EntriesAre(vec, M)
           /\ \A j \in 1..Len(vec) :
                vec[j].kind = OpenOutcome(scan[vec[j].device].raw).kind

\* C14, amended: devices() and devices_by_id() return one Result per scanned
\* device that matches the id filter or whose descriptor the filter cannot
\* read, in scan order, and nothing for the devices whose ids were read and
\* do not match; the entry of a match is the Result of open on it (an error
\* entry when open fails, the entries of the other devices unaffected), the
\* entry of an unreadable device is an error of kind Usb; no entry makes the
\* call itself fail.
C14_OnePerMatchOrUnreadable ==
  (result.op \in PluralApis /\ Scanned) =>
    /\ result.kind = "Ok"
    /\ Evaluated = 1..Len(scan)
    /\ LET vec == Unwrap(result.ret)
           M == Matches(result.op, result.arg)
           E == Unreadables(result.op)
       IN  /\ EntriesAre(vec, M \cup E)
           /\ \A j \in 1..Len(vec) :
                /\ vec[j].device \in M =>
                     vec[j].kind = OpenOutcome(scan[vec[j].device].raw).kind
                /\ vec[j].device \in E => vec[j].kind = "Usb"

\* devices() has returned the error entry of a matching device whose open
\* failed, followed by the handle of a later device, and skipped a device
\* that does not match.
C14_Witness ==
  /\ result.op = "devices"
  /\ result.kind = "Ok"
  /\ Len(scan) = 3
  /\ Len(Unwrap(result.ret)) = 2
  /\ Unwrap(result.ret)[1].kind = "Usb"
  /\ Unwrap(result.ret)[1].device \in Matches("devices", <<>>)
  /\ Unwrap(result.ret)[2].kind = "Ok"

DeviceScopeOps == {"read_eeprom_word", "write_eeprom_word", "erase_eeprom"}

PortScopeOps == {"reset", "read_pins", "into_mode"} \cup SerialOps

\* The control transfers among the calls of the last operation.
ControlCalls ==
  {k \in 1..Len(calls) : calls[k].call \in {"read_control", "write_control"}}

\* The interface number of the Port the last operation acted on.
InterfaceNumber ==
  IF result.op = "open_port" THEN result.arg[1] ELSE result.arg[1].index

\* C15 as stated: the index field of every control request is 0 for the
\* three EEPROM operations and interface number + 1 for the port operations.
C15_IndexField ==
  \A k \in ControlCalls :
    /\ result.op \in DeviceScopeOps => calls[k].index = 0
    /\ result.op \in PortScopeOps \cup {"open_port"} =>
         calls[k].index = InterfaceNumber + 1

\* C15, amended: the index field of every control request is the word
\* address for read_eeprom_word and write_eeprom_word, 0 for erase_eeprom,
\* and interface number + 1 for every port operation (reset, SetBitmode,
\* read_pins and the serial operations).
C15_IndexFieldByScope ==
  /\ ControlCalls # {} => result.op \in DeviceScopeOps \cup PortScopeOps \cup {"open_port"}
  /\ \A k \in ControlCalls :
       /\ result.op \in {"read_eeprom_word", "write_eeprom_word"} =>
            calls[k].index = result.arg[1]
       /\ result.op = "erase_eeprom" => calls[k].index = 0
       /\ result.op \in PortScopeOps \cup {"open_port"} =>
            calls[k].index = InterfaceNumber + 1

\* write_eeprom_word(1, w) has succeeded, with index field 1, while the Port
\* of interface 0 is alive.
C15_Witness ==
  /\ result.op = "write_eeprom_word"
  /\ result.kind = "Ok"
  /\ result.arg[1] = 1
  /\ calls[1].index = 1
  /\ \E p \in LivePorts : p.index = 1

\* The length of the buffer a port operation hands to its control transfer.
C16_BufferLength(op) ==
  CASE op \in {"read_pins", "read_latency_timer"} -> 1
    [] op = "poll_modem_status" -> 2
    [] OTHER -> 0

\* C16: a port operation whose control transfer succeeds with a byte count
\* other than the length of its buffer (reads) or payload (writes) returns
\* an error of kind Other and no data.
C16_CountMismatchIsOther ==
  result.op \in PortScopeOps \cup {"open_port"} =>
    \A k \in ControlCalls :
      /\ calls[k].len = C16_BufferLength(result.op)
      /\ answers[k] = "Count" =>
           /\ result.kind = "Other"
           /\ IsNone(result.ret)
           /\ k = Max(ControlCalls)

\* poll_modem_status has failed with Other on a transfer that succeeded with
\* a byte count other than 2, on the Port of interface 1.
C16_Witness ==
  /\ result.op = "poll_modem_status"
  /\ result.arg[1].index = 1
  /\ answers = <<"Count">>
  /\ calls[1].len = 2
  /\ result.kind = "Other"

\* C17: an EEPROM operation whose control transfer succeeds with a byte
\* count other than the requested length (2 for read_eeprom_word, 0 for
\* write_eeprom_word and erase_eeprom) returns an error of kind Other; it
\* never panics and returns no word.
C17_EepromCountMismatchIsOther ==
  result.op \in DeviceScopeOps =>
    /\ result.kind # "Panic"
    /\ answers = <<"Count">> =>
         /\ result.kind = "Other"
         /\ IsNone(result.ret)

\* The calls C18 is about: control transfers, claims, string reads and the
\* device reset.
TransportCalls ==
  {"read_control", "write_control", "claim_interface",
   "read_serial_number_string_ascii", "read_product_string_ascii", "reset"}

\* C18: when a control transfer, a claim, a string read or the device reset
\* fails in the USB layer, the operation returns an error of kind Usb and no
\* value; it made the failing call once, and after it only the release of
\* the interface the operation's Port had claimed.
C18_TransportFailureIsUsb ==
  \A k \in 1..Len(calls) :
    (answers[k] = "Err" /\ calls[k].call \in TransportCalls) =>
      /\ result.kind = "Usb"
      /\ IsNone(result.ret)
      /\ \A j \in 1..Len(calls) : j # k => calls[j] # calls[k]
      /\ \A j \in (k + 1)..Len(calls) :
           /\ calls[j] = ReleaseCall(InterfaceNumber)
           /\ j = Len(calls)
           /\ result.op \in {"open_port", "into_mode"}

\* open_port(1) has failed with Usb on its Reset transfer and released
\* interface 1, without attempting the SetBitmode transfer.
C18_Witness ==
  /\ result.op = "open_port"
  /\ result.kind = "Usb"
  /\ Len(calls) = 3
  /\ calls[1] = ClaimCall(1)
  /\ calls[2].request = 0 /\ answers[2] = "Err"
  /\ calls[3] = ReleaseCall(1)

\* C19: on the word array, write_eeprom_word(A, W) sets the word at A to W
\* and leaves every other word as it was; read_eeprom_word(A) returns the
\* word at A (decoded little-endian) and changes nothing; so
\* read_eeprom_word(A) right after write_eeprom_word(A, W) returns W.
C19_EepromRoundTrip ==
  /\ [][(result'.op = "write_eeprom_word" /\ result'.kind = "Ok") =>
          LET A == result'.arg[1]
              W == result'.arg[2]
          IN  /\ usb'.eeprom[A + 1] = W
              /\ \A a \in 1..Len(usb.eeprom) :
                   a # A + 1 => usb'.eeprom[a] = usb.eeprom[a]
              /\ Len(usb'.eeprom) = Len(usb.eeprom)]_vars
  /\ [][(result'.op = "read_eeprom_word" /\ result'.kind = "Ok") =>
          /\ result'.ret = Some(usb.eeprom[result'.arg[1] + 1])
          /\ usb' = usb]_vars
  /\ [][(/\ result.op = "write_eeprom_word" /\ result.kind = "Ok"
         /\ result'.op = "read_eeprom_word" /\ result'.kind = "Ok"
         /\ result'.arg[1] = result.arg[1]) =>
          result'.ret = Some(result.arg[2])]_vars

\* read_eeprom_word(1) has returned 0x0102, the word written there, while
\* the word at address 0 is another one.
C19_Witness ==
  /\ result.op = "read_eeprom_word"
  /\ result.kind = "Ok"
  /\ result.arg = <<1>>
  /\ result.ret = Some(258)
  /\ usb.eeprom[1] = 0

\* C20: set_dtr and set_rts each make one SetModemCtrl (0x01) write, on
\* index interface + 1, whose value is 0x0101 for set_dtr(true), 0x0100 for
\* set_dtr(false), 0x0202 for set_rts(true) and 0x0200 for set_rts(false),
\* in every state they are called in.
C20_ModemCtrlValues ==
  /\ result.op = "set_dtr" =>
       calls = <<Call("write_control", 64, 1,
                      IF result.arg[2] THEN 257 ELSE 256,
                      result.arg[1].index + 1, 0, result.arg[1].timeout)>>
  /\ result.op = "set_rts" =>
       calls = <<Call("write_control", 64, 1,
                      IF result.arg[2] THEN 514 ELSE 512,
                      result.arg[1].index + 1, 0, result.arg[1].timeout)>>

\* set_dtr(false) has succeeded with value 0x0100 on the Port of interface 1.
C20_Witness ==
  /\ result.op = "set_dtr"
  /\ result.kind = "Ok"
  /\ result.arg[2] = FALSE
  /\ result.arg[1].index = 1
  /\ calls[1].value = 256

\* The one control write of the last operation, as the claim states it: a
\* vendor write of `request` with `value` on index interface + 1.
OneWrite(request, value) ==
  <<Call("write_control", 64, request, value, result.arg[1].index + 1, 0,
         result.arg[1].timeout)>>

\* The value C21 states for a (parity, stop bits, break) triple, its fields
\* added since they do not overlap.
C21_Value(c) ==
  256 * (CASE c[1] = "None" -> 0 [] c[1] = "Odd" -> 1 [] c[1] = "Even" -> 2
           [] c[1] = "Mark" -> 3 [] c[1] = "Space" -> 4)
  + 2048 * (CASE c[2] = "Stop1" -> 0 [] c[2] = "Stop15" -> 1
              [] c[2] = "Stop2" -> 2)
  + 16384 * (IF c[3] THEN 1 ELSE 0)

\* C21: set_serial_config makes one SetData (0x04) write whose value is
\* (parity code << 8) | (stop code << 11) | (break << 14), for each of the
\* 5 x 3 x 2 argument triples; distinct triples give distinct values, and
\* (Even, Stop2, true) gives 0x5200.
C21_SerialConfigEncoding ==
  /\ result.op = "set_serial_config" =>
       /\ calls = OneWrite(4, C21_Value(SubSeq(result.arg, 2, 4)))
       /\ \A c \in AllSerialConfigs :
            c # SubSeq(result.arg, 2, 4) =>
              SerialConfigValue(c[1], c[2], c[3]) # calls[1].value
       /\ SubSeq(result.arg, 2, 4) = <<"Even", "Stop2", TRUE>> =>
            calls[1].value = 20992
  /\ Cardinality(AllSerialConfigs) = 30

\* set_serial_config(Even, Stop2, true) has written 0x5200.
C21_Witness ==
  /\ result.op = "set_serial_config"
  /\ result.kind = "Ok"
  /\ SubSeq(result.arg, 2, 4) = <<"Even", "Stop2", TRUE>>
  /\ calls[1].value = 20992

\* C22: set_event_char and set_error_char write 0x100 | b for Some(b) and 0
\* for None, on SetEventChar (0x06) and SetErrorChar (0x07), for every
\* byte b; set_flow_control writes 0x0000, 0x0100, 0x0200 or 0x0400 for
\* Disabled, RtsCts, DtrDsr or XonXoff on SetFlowCtrl (0x02).
C22_CharAndFlowValues ==
  /\ result.op = "set_event_char" =>
       calls = OneWrite(6, IF result.arg[2] = None THEN 0
                           ELSE 256 + result.arg[2][1])
  /\ result.op = "set_error_char" =>
       calls = OneWrite(7, IF result.arg[2] = None THEN 0
                           ELSE 256 + result.arg[2][1])
  /\ result.op = "set_flow_control" =>
       calls = OneWrite(2, CASE result.arg[2] = "Disabled" -> 0
                             [] result.arg[2] = "RtsCts" -> 256
                             [] result.arg[2] = "DtrDsr" -> 512
                             [] result.arg[2] = "XonXoff" -> 1024)

\* set_event_char(Some(0)) has written 0x0100, not the 0 of None.
C22_Witness ==
  /\ result.op = "set_event_char"
  /\ result.kind = "Ok"
  /\ result.arg[2] = Some(0)
  /\ calls[1].value = 256

\* C23: set_latency_timer(ms) with ms < 12 fails its assertion before any
\* transfer; with ms >= 12 it makes exactly one SetLatencyTimer (0x09) write
\* whose value is ms.
C23_LatencyAssertion ==
  result.op = "set_latency_timer" =>
    IF result.arg[2] < 12
    THEN result.kind = "Panic" /\ calls = <<>>
    ELSE result.kind # "Panic" /\ calls = OneWrite(9, result.arg[2])

\* set_latency_timer(11) has panicked without a transfer.
C23_Witness ==
  /\ result.op = "set_latency_timer"
  /\ result.arg[2] = 11
  /\ result.kind = "Panic"
  /\ calls = <<>>

\* C24: for every 16-bit word the device answers, poll_modem_status returns
\* the flag set whose bits 4 to 15 are the word's and whose bits 0 to 3 are
\* clear; low bits set in the word are not an error.
C24_ModemStatusTruncation ==
  result.op = "poll_modem_status" /\ answers = <<"Done">> =>
    LET word  == result.data[1] + 256 * result.data[2]
        flags == Unwrap(result.ret)
    IN  /\ result.kind = "Ok"
        /\ IsSome(result.ret)
        /\ flags % 16 = 0
        /\ flags \div 16 = word \div 16

\* The device has answered 0xFFFF and poll_modem_status returned 0xFFF0.
C24_Witness ==
  /\ result.op = "poll_modem_status"
  /\ result.kind = "Ok"
  /\ result.data = <<255, 255>>
  /\ result.ret = Some(65520)

\* C25: a Port's transfers use the timeout its parent handle had at
\* open_port; a later set_timeout changes the handle's timeout only, not
\* that of the Ports already open; erase_eeprom's transfer uses the timeout
\* its caller passes and leaves the handle's timeout as it was.
C25_TimeoutScopes ==
  [][/\ result'.op = "open_port" /\ result'.kind # "Panic" =>
          /\ \A k \in 1..Len(calls') :
               calls'[k].call \in {"read_control", "write_control"} =>
                 calls'[k].timeout = Unwrap(ftdi).timeout
          /\ IsSome(result'.ret) =>
               Unwrap(result'.ret).timeout = Unwrap(ftdi).timeout
     /\ result'.op \in PortScopeOps =>
          /\ BagIn(result'.arg[1], ports)
          /\ \A k \in 1..Len(calls') :
               calls'[k].call \in {"read_control", "write_control"} =>
                 calls'[k].timeout = result'.arg[1].timeout
          /\ IsSome(result'.ret) /\ result'.op = "into_mode" =>
               Unwrap(result'.ret).timeout = result'.arg[1].timeout
     /\ result'.op = "set_timeout" =>
          /\ Unwrap(ftdi').timeout = result'.arg[1]
          /\ ports' = ports
     /\ result'.op = "erase_eeprom" =>
          /\ Len(calls') = 1
          /\ calls'[1].timeout = result'.arg[1]
          /\ ftdi' = ftdi
          /\ ports' = ports]_vars

\* A Port opened under the default timeout has made a transfer with it
\* after set_timeout gave the handle another.
C25_Witness ==
  /\ result.op \in PortScopeOps
  /\ result.kind = "Ok"
  /\ calls[1].timeout = DEFAULT_TIMEOUT
  /\ IsSome(ftdi)
  /\ Unwrap(ftdi).timeout # DEFAULT_TIMEOUT

\* C26: the device is open exactly while the handle or a Port is alive, so
\* the operations of a Port outliving the handle act on an open device; the
\* step that closes it removes the last holder, and when that holder is a
\* Port the step's last call releases the Port's interface.
C26_OpenWhileHeld ==
  /\ [](usb.open <=> (IsSome(ftdi) \/ LivePorts # {}))
  /\ [][usb.open /\ ~usb'.open =>
          /\ IsNone(ftdi') /\ ports' = EmptyBag
          /\ \/ result'.op = "drop_ftdi" /\ ports = EmptyBag
             \/ /\ result'.op \in {"drop_port", "into_mode"}
                /\ IsNone(ftdi)
                /\ ports = SetToBag({result'.arg[1]})
                /\ calls' # <<>>
                /\ calls'[Len(calls')] = ReleaseCall(result'.arg[1].index)]_vars

\* After the handle was dropped, a transfer of one of two live Ports has
\* succeeded on the open device.
C26_Witness ==
  /\ IsNone(ftdi)
  /\ usb.open
  /\ BagCardinality(ports) = 2
  /\ result.op \in {"reset", "read_pins"} \cup SerialOps
  /\ result.kind = "Ok"

\* The control transfers of the last operation, in the order made.
ControlSeq == SelectSeq(calls, LAMBDA c : c.call \in {"read_control", "write_control"})

\* C27 as stated: every operation makes at most one control transfer per
\* call.
C27_AtMostOneTransfer == Len(ControlSeq) <= 1

\* C27: every operation makes at most one control transfer per call, except
\* open_port, which makes at most two: the Reset transfer and then, when
\* that one succeeded, the SetBitmode transfer.
C27_TransfersPerOperation ==
  IF result.op = "open_port"
  THEN /\ Len(ControlSeq) <= 2
       /\ Len(ControlSeq) >= 1 => ControlSeq[1].request = 0
       /\ Len(ControlSeq) = 2 =>
            /\ ControlSeq[2].request = 11
            /\ answers[2] = "Done"
       /\ result.kind = "Ok" => Len(ControlSeq) = 2
  ELSE Len(ControlSeq) <= 1

\* open_port has returned a Port after its two transfers.
C27_Witness ==
  /\ result.op = "open_port"
  /\ result.kind = "Ok"
  /\ Len(ControlSeq) = 2

\* The borrows of the shared device active after the first k accesses of
\* the last operation.
RECURSIVE Depth(_)
Depth(k) ==
  IF k = 0 THEN 0
  ELSE Depth(k - 1) + (CASE borrows[k] = "borrow_mut" -> 1
                         [] borrows[k] = "drop" -> 0 - 1
                         [] OTHER -> 0)

\* C28: at most one exclusive borrow of the shared device is ever active:
\* no operation takes a borrow while one is held, every call on the shared
\* device is made under exactly one borrow, and no borrow outlives the
\* operation, whether it is a handle operation, a port operation, a failed
\* open_port or into_mode, or the drop of a Port.
C28_SerializedAccess ==
  /\ \A k \in 1..Len(borrows) :
       /\ Depth(k) \in {0, 1}
       /\ borrows[k] = "call" => Depth(k) = 1
  /\ Depth(Len(borrows)) = 0
  /\ result.op \notin {"init", "open"} =>
       Len(SelectSeq(borrows, LAMBDA b : b = "call")) = Len(calls)

\* open_port has failed in its SetBitmode transfer after four borrows: for
\* the claim, the two transfers and the release.
C28_Witness ==
  /\ result.op = "open_port"
  /\ result.kind = "Other"
  /\ Len(calls) = 4
  /\ Len(SelectSeq(borrows, LAMBDA b : b = "borrow_mut")) = 4

\* An interface is claimed by this process exactly when one live Port holds
\* it, and no interface has two Ports.
ClaimedIffHeld ==
  /\ usb.claimed = {p.index : p \in LivePorts}
  /\ \A p \in LivePorts : CopiesIn(p, ports) = 1
  /\ \A p, q \in LivePorts : p.index = q.index => p = q

\* The calls of the step to `name` that the USB layer answered "Ok".
Succeeded(name, cs, as) ==
  {k \in 1..Len(cs) : cs[k].call = name /\ as[k] = "Ok"}

\* C29: as long as every release_interface call succeeds, an interface is
\* claimed exactly when one live Port holds it.  An open_port whose claim
\* succeeded and whose Reset or SetBitmode transfer failed, and an into_mode
\* whose transfer failed, release the interface and return no Port, and the
\* interface can be claimed again; in every operation the successful claims
\* less the release calls are the Ports gained.
C29_NoClaimLeaked ==
  /\ ClaimedIffHeld
  /\ [][/\ Cardinality(Succeeded("claim_interface", calls', answers'))
            - Cardinality({k \in 1..Len(calls') :
                             calls'[k].call = "release_interface"})
            = BagCardinality(ports') - BagCardinality(ports)
        /\ (ClaimedIffHeld /\ \A k \in 1..Len(calls') :
                                calls'[k].call = "release_interface" =>
                                  answers'[k] = "Ok") =>
             /\ ClaimedIffHeld'
             /\ (/\ result'.op \in {"open_port", "into_mode"}
                 /\ result'.kind \in {"Usb", "Other"}
                 /\ Len(calls') > 1) =>
                  LET i == IF result'.op = "open_port" THEN result'.arg[1]
                           ELSE result'.arg[1].index IN
                    /\ result'.ret = None
                    /\ calls'[Len(calls')] = ReleaseCall(i)
                    /\ i \notin usb'.claimed
                    /\ UsbClaimOk(usb', i, TRUE)
                    /\ \A p \in BagToSet(ports') : p.index # i]_vars

\* open_port(1) has failed in its SetBitmode transfer, interface 1 was
\* released and is free again while the Port of interface 0 keeps its claim.
C29_Witness ==
  /\ result.op = "open_port"
  /\ result.arg[1] = 1
  /\ result.kind = "Other"
  /\ Len(calls) = 4
  /\ answers[4] = "Ok"
  /\ usb.claimed = {0}
  /\ ClaimedIffHeld

\* C30: when the release_interface call that ends a Port's life fails,
\* nothing of it reaches the caller: the operation does not panic, a drop
\* removes the Port and returns, and a failed open_port or into_mode returns
\* the Usb or Other error of its failed transfer.
C30_ReleaseFailureSwallowed ==
  [][\A k \in 1..Len(calls') :
       calls'[k].call = "release_interface" /\ answers'[k] = "Err" =>
         /\ k = Len(calls')
         /\ result'.kind # "Panic"
         /\ result'.op \in {"drop_port", "open_port", "into_mode"}
         /\ result'.op = "drop_port" =>
              /\ result'.kind = "Ok"
              /\ k = 1
              /\ ports' = ports (-) SetToBag({result'.arg[1]})
         /\ result'.op \in {"open_port", "into_mode"} =>
              /\ k > 1
              /\ answers'[k - 1] \in {"Err", "Count"}
              /\ result'.kind = IF answers'[k - 1] = "Err" THEN "Usb"
                                ELSE "Other"
              /\ result'.ret = None
         /\ result'.op = "into_mode" =>
              ports' = ports (-) SetToBag({result'.arg[1]})
         /\ result'.op = "open_port" => ports' = ports]_vars

\* into_mode has returned the Other error of its short SetBitmode transfer
\* although the release that followed failed.
C30_Witness ==
  /\ result.op = "into_mode"
  /\ result.kind = "Other"
  /\ answers = <<"Count", "Err">>
  /\ calls[2].call = "release_interface"

====
